---- MODULE Spec2Model ----
(***************************************************************************)
(* Model of the messaging layer of go-toolkit: the Subscriber (push mode   *)
(* consumeCore, pull mode consumeJetStream), the Publisher (PublishWithID)  *)
(* and EnsureStream, together with the broker they talk to.                 *)
(***************************************************************************)
EXTENDS Integers, Sequences, FiniteSets, TLC

(* ---------------------------------------------------------------- bounds *)
\* Messages the broker hands to the push callback / stores in the stream.
MaxMsgs == 5
\* Largest concurrency a Subscriber is configured with (SubWithConcurrency).
MaxConcurrency == 2
\* Deliveries a pull consumer receives (first deliveries and redeliveries).
MaxDeliveries == 3
\* Publisher / EnsureStream calls made concurrently.
MaxCalls == 2
\* Publisher / EnsureStream calls made one after the other.
MaxSeqCalls == 3

(* ------------------------------------------------------ program constants *)
\* make(chan *nats.Msg, s.concurrency*4)
QueueFactor == 4
\* sub.Fetch(10, ...)
FetchBatch == 10

VARIABLES
    s,            \* Subscriber fields: prefix, queue, concurrency, js, useJetStream, metrics
    parentDone,   \* the context handed to Consume is cancelled
    pc,           \* position of the goroutine running Consume
    result,       \* what Consume returned: "none" (not yet), "nil", "err"
    subject,      \* the subject Consume subscribes to (after the prefix)
    chMade,       \* msgCh exists
    msgCh,        \* the buffered channel's content
    chClosed,     \* close(msgCh) has run
    workers,      \* worker goroutines: [pc, msg, ctx]
    subState,     \* the broker's push subscription: none, active, draining, closed
    produced,     \* messages the broker has handed to cb
    cbMsg,        \* message of the callback invocation in progress (0: none)
    fate,         \* per message: what cb did with it
    late,         \* cb has enqueued a message it was handed after the cancellation
    invokedBy,    \* per message: the workers that passed it to the handler, in order
    submetrics,   \* nats_consume_total per status, and duration observations
    sublog,       \* log lines of the subscriber, per message text
    h,            \* the handler: the set of messages for which it returns an error
    panicked,     \* a goroutine panicked: the process is gone
    \* pull mode (consumeJetStream)
    deliv,        \* deliveries fetched so far: [m, st, res, acks, naks]
    batch,        \* msgs of the current Fetch, as indices into deliv
    bi,           \* position of the range loop in batch
    fetchErr,     \* err of the last sub.Fetch: "none" (no fetch yet), "nil", "timeout", "other"
    \* the broker's JetStream side
    streams,      \* names of the streams that exist
    created,      \* per stream name: AddStream requests that created a stream
    addPresent,   \* per stream name: AddStream requests made while the stream existed
    stored,       \* messages stored in streams: [subj, id, st, by]
    conn,         \* the *nats.Conn handed to the constructors: open, draining, closed
    \* Publisher
    p,            \* Publisher fields: prefix, js, useJetStream, metrics
    calls,        \* Publish / PublishWithID / EnsureStream calls
    xids,         \* ids xid.New() has generated
    ensuredOk,    \* stream names for which some EnsureStream call has returned nil
    \* websocket connection manager
    ws            \* manager: conns, ctxs, rooms, mu, and the goroutines calling it

pushVars == <<chMade, msgCh, chClosed, workers, subState, produced, cbMsg, fate,
              late, invokedBy>>
pullVars == <<deliv, batch, bi, fetchErr>>
brokerVars == <<streams, created, addPresent, stored, conn>>
pubVars == <<p, calls, xids, ensuredOk>>
vars == <<s, h, parentDone, pc, result, subject, pushVars, submetrics, sublog, panicked,
          pullVars, brokerVars, pubVars, ws>>

Msgs == 1..MaxMsgs

Prefixes == {"", "p."}
Subjects == {"a"}
\* The SubWithPrefix / SubWithQueue options a Subscriber is built with.
SubNames == {<<"", "">>, <<"p.", "grp">>}
\* The handlers a caller passes to Consume: one that never fails, one that fails on
\* the first and third message.
Handlers == {{}, {1, 3}}
StreamNames == {pf \o sb : pf \in Prefixes, sb \in Subjects}
PubSlots == 1..MaxCalls
SeqSlots == 1..MaxSeqCalls
CallSlots == PubSlots \cup SeqSlots
\* Fetch errors other than a timeout that the broker injects into one Consume.
MaxFetchErrors == 1

MetricStatuses == {"received", "processed", "error", "dropped", "observe"}
LogTexts == {"starting", "queued", "stopping enqueue", "dropped", "handler error",
             "processed", "ready", "draining", "stopped", "fetch error"}

\* s.metrics.IncWithTags(ctx, "nats_consume_total", 1, {status}) when s.metrics != nil
IncMetric(m, status) ==
    IF s.metrics THEN [m EXCEPT ![status] = @ + 1] ELSE m

LogLine(l, text) == [l EXCEPT ![text] = @ + 1]

\* cap(msgCh)
Capacity == s.concurrency * QueueFactor

\* One worker too many.
WorkerIdsOffByOne == 0 .. s.concurrency

\* One worker for every slot of the channel.
WorkerIdsPerSlot == 0 .. (Capacity - 1)

\* for i := 0; i < s.concurrency; i++
WorkerIds == 0 .. (s.concurrency - 1)

\* s.deriveCtx: the default set by NewSubscriber (the parent with a fresh request id),
\* or the function handed to SubWithContextFn.
DeriveFns == {"default", "custom"}

\* No context: the worker is not in a handler call.
NoCtx == [fn |-> "none", parent |-> "none", msg |-> 0]

\* A derivation that ignores the option.
DeriveCtxDefault(parent, m) == [fn |-> "default", parent |-> parent, msg |-> m]

\* ctx := s.deriveCtx(parent, m)
DeriveCtx(parent, m) == [fn |-> s.deriveCtx, parent |-> parent, msg |-> m]

\* The goroutines that call the websocket manager, and what they call it with.
WsThreads == {1, 2}
WsIds == {"u1", "u2"}
WsRooms == {"r"}

\* A goroutine that is in no call of the manager.
WsIdle == [pc |-> "idle", op |-> "none", id |-> "", room |-> "", ids |-> <<>>,
           next |-> "", held |-> "none"]

\* NewManager(): empty maps, the mutex free.
NewManager ==
    [conns |-> {}, ctxs |-> {}, rooms |-> {}, writer |-> 0, readers |-> {},
     th |-> [t \in WsThreads |-> WsIdle], unprot |-> {}, race |-> FALSE,
     crashed |-> FALSE]

(* ------------------------------------------------------------------ Init *)
\* NewSubscriber with its options applied; Consume has not been called yet.
NewSubscriber ==
    \E o \in SubNames, n \in (-1)..MaxConcurrency, j \in BOOLEAN, u \in BOOLEAN,
       m \in BOOLEAN, f \in DeriveFns :
        s = [prefix |-> o[1], queue |-> o[2], concurrency |-> n,
             js |-> j, useJetStream |-> u, metrics |-> m, deriveCtx |-> f]

\* No stream exists and nothing is stored when the program starts.
InitBroker ==
    /\ streams = {}
    /\ created = [n \in StreamNames |-> 0]
    /\ addPresent = [n \in StreamNames |-> 0]
    /\ stored = <<>>
    /\ conn = "open"

\* The state of a Subscriber on which Consume has not been called yet.
InitConsume ==
    /\ parentDone = FALSE
    /\ pc = "created"
    /\ result = "none"
    /\ subject = "a"
    /\ h \in Handlers
    /\ chMade = FALSE
    /\ msgCh = <<>>
    /\ chClosed = FALSE
    /\ workers = <<>>
    /\ subState = "none"
    /\ produced = 0
    /\ cbMsg = 0
    /\ fate = [m \in Msgs |-> "none"]
    /\ late = FALSE
    /\ invokedBy = [m \in Msgs |-> <<>>]
    /\ submetrics = [st \in MetricStatuses |-> 0]
    /\ sublog = [t \in LogTexts |-> 0]
    /\ panicked = FALSE
    /\ deliv = <<>>
    /\ batch = <<>>
    /\ bi = 0
    /\ fetchErr = "none"

IdleCall == [pc |-> "idle", op |-> "none", recv |-> "p", subj |-> "", arg |-> "",
             msgID |-> "", hdr |-> "", marshals |-> TRUE, deadline |-> FALSE,
             ctx |-> "live", doneAtCall |-> FALSE, afterOk |-> FALSE, ens |-> "none",
             res |-> "none", ops |-> <<>>, ans |-> <<>>, rec |-> "none",
             metric |-> <<>>]

\* NewPublisher with its options applied; no call has been made yet.
NewPublisher ==
    /\ p \in [prefix: Prefixes, js: BOOLEAN, useJetStream: BOOLEAN, metrics: BOOLEAN]
    /\ calls = [c \in CallSlots |-> IdleCall]
    /\ xids = 0
    /\ ensuredOk = {}

\* A subscriber alone: other producers feed the broker.
InitSub ==
    /\ ws = NewManager
    /\ NewSubscriber
    /\ s.deriveCtx = "default"
    /\ InitConsume
    /\ InitBroker
    /\ p = [prefix |-> "", js |-> TRUE, useJetStream |-> TRUE, metrics |-> FALSE]
    /\ calls = [c \in CallSlots |-> IdleCall]
    /\ xids = 0
    /\ ensuredOk = {}

(* --------------------------------------------------------------- Consume *)
\* The caller cancels the context.
Cancel ==
    /\ ~panicked
    /\ ~parentDone
    /\ parentDone' = TRUE
    /\ UNCHANGED <<s, h, pullVars, brokerVars, pubVars, pc, result, subject, pushVars, submetrics, sublog, panicked>>
    /\ UNCHANGED ws

\* Consume: prefix the subject, pick the mode.
Consume ==
    /\ ~panicked
    /\ pc = "created"
    /\ subject' = s.prefix \o subject
    /\ pc' = IF s.useJetStream /\ s.js THEN "jsEnsure" ELSE "coreMake"
    /\ UNCHANGED <<s, h, pullVars, brokerVars, pubVars, parentDone, result, pushVars, submetrics, sublog, panicked>>
    /\ UNCHANGED ws

(* ----------------------------------------------------------- consumeCore *)
\* make the channel and start s.concurrency workers.
CoreMake ==
    /\ ~panicked
    /\ pc = "coreMake"
    /\ sublog' = LogLine(sublog, "starting")
    /\ IF s.concurrency < 0
       THEN \* make(chan, n) with n < 0 panics
            /\ panicked' = TRUE
            /\ UNCHANGED <<chMade, workers, pc>>
       ELSE /\ chMade' = TRUE
            /\ workers' = [w \in WorkerIds |-> [pc |-> "recv", msg |-> 0, ctx |-> NoCtx]]
            /\ pc' = "subscribe"
            /\ UNCHANGED panicked
    /\ UNCHANGED <<s, h, pullVars, brokerVars, pubVars, parentDone, result, subject,
                   msgCh, chClosed, subState, produced, late, cbMsg, fate, invokedBy,
                   submetrics>>
    /\ UNCHANGED ws

\* for m := range msgCh: a worker takes the head of the channel and calls h.
WorkerRecv(w) ==
    /\ ~panicked
    /\ workers[w].pc = "recv"
    /\ msgCh # <<>>
    /\ msgCh' = Tail(msgCh)
    /\ workers' = [workers EXCEPT ![w].pc = "handling", ![w].msg = Head(msgCh),
                                  ![w].ctx = DeriveCtx("parent", Head(msgCh))]
    /\ invokedBy' = [invokedBy EXCEPT ![Head(msgCh)] = Append(@, w)]
    /\ submetrics' = IncMetric(submetrics, "received")
    /\ UNCHANGED <<s, h, pullVars, brokerVars, pubVars, parentDone, pc, result, subject, chMade, chClosed, subState,
                   produced, late, cbMsg, fate, sublog, panicked>>
    /\ UNCHANGED ws

\* A worker that puts a failed message back on the channel.
WorkerHandlerRequeue(w, err) ==
    /\ ~panicked
    /\ workers[w].pc = "handling"
    /\ err = (workers[w].msg \in h)
    /\ workers' = [workers EXCEPT ![w].pc = "recv", ![w].msg = 0, ![w].ctx = NoCtx]
    /\ msgCh' = IF err /\ ~chClosed THEN Append(msgCh, workers[w].msg) ELSE msgCh
    /\ UNCHANGED <<s, h, pullVars, brokerVars, pubVars, parentDone, pc, result, subject,
                   chMade, chClosed, subState, produced, late, cbMsg, fate, invokedBy,
                   submetrics, sublog, panicked>>
    /\ UNCHANGED ws

\* h returns, with an error or without: log it, count it, take the next message.
WorkerHandlerReturn(w, err) ==
    /\ ~panicked
    /\ workers[w].pc = "handling"
    /\ err = (workers[w].msg \in h)
    /\ workers' = [workers EXCEPT ![w].pc = "recv", ![w].msg = 0, ![w].ctx = NoCtx]
    /\ submetrics' = IncMetric(IncMetric(submetrics, IF err THEN "error" ELSE "processed"),
                               "observe")
    /\ sublog' = LogLine(sublog, IF err THEN "handler error" ELSE "processed")
    /\ UNCHANGED <<s, h, pullVars, brokerVars, pubVars, parentDone, pc, result, subject, chMade, msgCh, chClosed, subState,
                   produced, late, cbMsg, fate, invokedBy, panicked>>
    /\ UNCHANGED ws

\* A worker whose range loop does not end when the channel is closed.
WorkerExitNever(w) ==
    /\ ~panicked
    /\ workers[w].pc = "exiting"
    /\ UNCHANGED vars

\* range over a closed, empty channel ends: defer wg.Done().
WorkerExit(w) ==
    /\ ~panicked
    /\ workers[w].pc = "recv"
    /\ chClosed
    /\ msgCh = <<>>
    /\ workers' = [workers EXCEPT ![w].pc = "exited"]
    /\ UNCHANGED <<s, h, pullVars, brokerVars, pubVars, parentDone, pc, result, subject, chMade, msgCh, chClosed, subState,
                   produced, late, cbMsg, fate, invokedBy, submetrics, sublog, panicked>>
    /\ UNCHANGED ws

\* The broker invokes cb with the next message: ctx := s.deriveCtx(parent, m).
CbStart ==
    /\ ~panicked
    /\ subState \in {"active", "draining"}
    /\ cbMsg = 0
    /\ produced < MaxMsgs
    /\ produced' = produced + 1
    /\ cbMsg' = produced + 1
    /\ fate' = [fate EXCEPT ![produced + 1] = IF parentDone THEN "incbLate" ELSE "incb"]
    /\ UNCHANGED <<late, s, h, pullVars, brokerVars, pubVars, parentDone, pc, result, subject, chMade, msgCh, chClosed, workers,
                   subState, invokedBy, submetrics, sublog, panicked>>
    /\ UNCHANGED ws

\* A channel that takes a send only while it is less than half full.
SendReadyHalf == ~chClosed /\ Len(msgCh) * 2 < Capacity

\* A channel without a bound.
SendReadyUnbounded == ~chClosed

\* The cases of cb's select that can proceed.
SendReady == ~chClosed /\ Len(msgCh) < Capacity
SendPanics == chClosed
DoneReady == parentDone

\* case msgCh <- m
CbEnqueue ==
    /\ ~panicked
    /\ cbMsg # 0
    /\ SendReady
    /\ msgCh' = Append(msgCh, cbMsg)
    /\ fate' = [fate EXCEPT ![cbMsg] = "enqueued"]
    /\ late' = (late \/ fate[cbMsg] = "incbLate")
    /\ sublog' = LogLine(sublog, "queued")
    /\ cbMsg' = 0
    /\ UNCHANGED <<s, h, pullVars, brokerVars, pubVars, parentDone, pc, result, subject, chMade, chClosed, workers,
                   subState, produced, invokedBy, submetrics, panicked>>
    /\ UNCHANGED ws

\* case msgCh <- m on a closed channel: the send panics.
CbSendOnClosed ==
    /\ ~panicked
    /\ cbMsg # 0
    /\ SendPanics
    /\ fate' = [fate EXCEPT ![cbMsg] = "panic"]
    /\ panicked' = TRUE
    /\ UNCHANGED <<s, h, pullVars, brokerVars, pubVars, parentDone, pc, result, subject, chMade, msgCh, chClosed, workers,
                   subState, produced, late, cbMsg, invokedBy, submetrics, sublog>>
    /\ UNCHANGED ws

\* case <-parent.Done()
CbParentDone ==
    /\ ~panicked
    /\ cbMsg # 0
    /\ DoneReady
    /\ fate' = [fate EXCEPT ![cbMsg] = "stopped"]
    /\ sublog' = LogLine(sublog, "stopping enqueue")
    /\ cbMsg' = 0
    /\ UNCHANGED <<s, h, pullVars, brokerVars, pubVars, parentDone, pc, result, subject, chMade, msgCh, chClosed, workers,
                   subState, produced, late, invokedBy, submetrics, panicked>>
    /\ UNCHANGED ws

\* A default case that records nothing.
CbDropSilent ==
    /\ ~panicked
    /\ cbMsg # 0
    /\ ~SendReady /\ ~SendPanics /\ ~DoneReady
    /\ fate' = [fate EXCEPT ![cbMsg] = "dropped"]
    /\ cbMsg' = 0
    /\ UNCHANGED <<s, h, pullVars, brokerVars, pubVars, parentDone, pc, result, subject,
                   chMade, msgCh, chClosed, workers, subState, produced, late, invokedBy,
                   submetrics, sublog, panicked>>
    /\ UNCHANGED ws

\* A select without a default case: cb waits for queue space.
CbDropBlocks ==
    /\ ~panicked
    /\ cbMsg # 0
    /\ FALSE
    /\ UNCHANGED vars

\* default: the queue is full, the message is dropped.
CbDrop ==
    /\ ~panicked
    /\ cbMsg # 0
    /\ ~SendReady /\ ~SendPanics /\ ~DoneReady
    /\ fate' = [fate EXCEPT ![cbMsg] = "dropped"]
    /\ submetrics' = IncMetric(submetrics, "dropped")
    /\ sublog' = LogLine(sublog, "dropped")
    /\ cbMsg' = 0
    /\ UNCHANGED <<s, h, pullVars, brokerVars, pubVars, parentDone, pc, result, subject, chMade, msgCh, chClosed, workers,
                   subState, produced, late, invokedBy, panicked>>
    /\ UNCHANGED ws

\* One callback invocation running its select to the end.
CbStep ==
    \/ CbEnqueue
    \/ CbSendOnClosed
    \/ CbParentDone
    \/ CbDrop

\* s.conn.QueueSubscribe / s.conn.Subscribe, and the error path after it.
CoreSubscribe(ok) ==
    /\ ~panicked
    /\ pc = "subscribe"
    /\ IF ok THEN /\ subState' = "active"
                  /\ pc' = "flush"
             ELSE /\ subState' = subState
                  /\ pc' = "errClose"
    /\ UNCHANGED <<s, h, pullVars, brokerVars, pubVars, parentDone, result, subject, chMade, msgCh, chClosed, workers,
                   produced, late, cbMsg, fate, invokedBy, submetrics, sublog, panicked>>
    /\ UNCHANGED ws

\* s.conn.Flush()
CoreFlush(ok) ==
    /\ ~panicked
    /\ pc = "flush"
    /\ IF ok THEN /\ pc' = "ready"
                  /\ sublog' = LogLine(sublog, "ready")
             ELSE /\ pc' = "unsub"
                  /\ sublog' = sublog
    /\ UNCHANGED <<s, h, pullVars, brokerVars, pubVars, parentDone, result, subject, pushVars, submetrics, panicked>>
    /\ UNCHANGED ws

\* _ = sub.Unsubscribe(): the broker starts no further callback.
CoreUnsubscribe ==
    /\ ~panicked
    /\ pc = "unsub"
    /\ subState' = "closed"
    /\ pc' = "errClose"
    /\ UNCHANGED <<s, h, pullVars, brokerVars, pubVars, parentDone, result, subject, chMade, msgCh, chClosed, workers,
                   produced, late, cbMsg, fate, invokedBy, submetrics, sublog, panicked>>
    /\ UNCHANGED ws

\* close(msgCh) on a setup error
CoreErrClose ==
    /\ ~panicked
    /\ pc = "errClose"
    /\ chClosed' = TRUE
    /\ pc' = "errWait"
    /\ UNCHANGED <<s, h, pullVars, brokerVars, pubVars, parentDone, result, subject, chMade, msgCh, workers, subState,
                   produced, late, cbMsg, fate, invokedBy, submetrics, sublog, panicked>>
    /\ UNCHANGED ws

\* wg.Wait() that does not wait.
WaitSkipped == TRUE

\* wg.Wait(): every worker has run its deferred wg.Done().
AllWorkersExited == \A w \in DOMAIN workers : workers[w].pc = "exited"

\* An error path that loses the error.
CoreErrWaitNil ==
    /\ ~panicked
    /\ pc = "errWait"
    /\ AllWorkersExited
    /\ pc' = "returned"
    /\ result' = "nil"
    /\ UNCHANGED <<s, h, pullVars, brokerVars, pubVars, parentDone, subject, pushVars, submetrics, sublog, panicked>>
    /\ UNCHANGED ws

\* An error path that returns without wg.Wait().
CoreErrWaitNoWait ==
    /\ ~panicked
    /\ pc = "errWait"
    /\ pc' = "returned"
    /\ result' = "err"
    /\ UNCHANGED <<s, h, pullVars, brokerVars, pubVars, parentDone, subject, pushVars, submetrics, sublog, panicked>>
    /\ UNCHANGED ws

\* wg.Wait(); return err
CoreErrWait ==
    /\ ~panicked
    /\ pc = "errWait"
    /\ AllWorkersExited
    /\ pc' = "returned"
    /\ result' = "err"
    /\ UNCHANGED <<s, h, pullVars, brokerVars, pubVars, parentDone, subject, pushVars, submetrics, sublog, panicked>>
    /\ UNCHANGED ws

\* A Consume that starts to drain without waiting for the cancellation.
CoreAwaitDoneNoWait ==
    /\ ~panicked
    /\ pc = "ready"
    /\ pc' = "drain"
    /\ sublog' = LogLine(sublog, "draining")
    /\ UNCHANGED <<s, h, pullVars, brokerVars, pubVars, parentDone, result, subject, pushVars, submetrics, panicked>>
    /\ UNCHANGED ws

\* <-parent.Done()
CoreAwaitDone ==
    /\ ~panicked
    /\ pc = "ready"
    /\ parentDone
    /\ pc' = "drain"
    /\ sublog' = LogLine(sublog, "draining")
    /\ UNCHANGED <<s, h, pullVars, brokerVars, pubVars, parentDone, result, subject, pushVars, submetrics, panicked>>
    /\ UNCHANGED ws

\* A drain of the connection (s.conn.Drain()) in place of the subscription's.
CoreDrainConn ==
    /\ ~panicked
    /\ pc = "drain"
    /\ subState' = "draining"
    /\ conn' = "draining"
    /\ pc' = "close"
    /\ UNCHANGED <<s, h, pullVars, streams, created, addPresent, stored, pubVars, parentDone, result,
                   subject, chMade, msgCh, chClosed, workers,
                   produced, late, cbMsg, fate, invokedBy, submetrics, sublog, panicked>>
    /\ UNCHANGED ws

\* _ = sub.Drain(): returns at once; the broker still delivers what is pending.
CoreDrain ==
    /\ ~panicked
    /\ pc = "drain"
    /\ subState' = "draining"
    /\ pc' = "close"
    /\ UNCHANGED <<s, h, pullVars, brokerVars, pubVars, parentDone, result, subject, chMade, msgCh, chClosed, workers,
                   produced, late, cbMsg, fate, invokedBy, submetrics, sublog, panicked>>
    /\ UNCHANGED ws

\* The broker has delivered everything pending of a draining subscription.
BrokerDrainDone ==
    /\ ~panicked
    /\ subState = "draining"
    /\ cbMsg = 0
    /\ subState' = "closed"
    /\ UNCHANGED <<s, h, pullVars, brokerVars, pubVars, parentDone, pc, result, subject, chMade, msgCh, chClosed, workers,
                   produced, late, cbMsg, fate, invokedBy, submetrics, sublog, panicked>>
    /\ UNCHANGED ws

\* A close that throws away what the channel still buffers.
CoreCloseDiscard ==
    /\ ~panicked
    /\ pc = "close"
    /\ chClosed' = TRUE
    /\ msgCh' = <<>>
    /\ pc' = "wait"
    /\ UNCHANGED <<s, h, pullVars, brokerVars, pubVars, parentDone, result, subject, chMade, workers, subState,
                   produced, late, cbMsg, fate, invokedBy, submetrics, sublog, panicked>>
    /\ UNCHANGED ws

\* close(msgCh)
CoreClose ==
    /\ ~panicked
    /\ pc = "close"
    /\ chClosed' = TRUE
    /\ pc' = "wait"
    /\ UNCHANGED <<s, h, pullVars, brokerVars, pubVars, parentDone, result, subject, chMade, msgCh, workers, subState,
                   produced, late, cbMsg, fate, invokedBy, submetrics, sublog, panicked>>
    /\ UNCHANGED ws

\* wg.Wait(); return nil
CoreWait ==
    /\ ~panicked
    /\ pc = "wait"
    /\ AllWorkersExited
    /\ pc' = "returned"
    /\ result' = "nil"
    /\ sublog' = LogLine(sublog, "stopped")
    /\ UNCHANGED <<s, h, pullVars, brokerVars, pubVars, parentDone, subject, pushVars, submetrics, panicked>>
    /\ UNCHANGED ws

(* ------------------------------------------------------ the broker's streams *)
\* js.StreamInfo(name): nil when the stream exists, ErrStreamNotFound otherwise.
StreamInfoAnswer(name) == IF name \in streams THEN "nil" ELSE "notfound"

\* js.AddStream(name): creates an absent stream; for a stream that exists the
\* broker answers either nil (same configuration) or "stream name already in use".
AddStreamAnswers(name) == IF name \in streams THEN {"nil", "exists"} ELSE {"nil"}

BrokerAddStream(name, ans) ==
    /\ streams' = IF ans = "nil" THEN streams \cup {name} ELSE streams
    /\ created' = IF ans = "nil" /\ name \notin streams
                  THEN [created EXCEPT ![name] = @ + 1] ELSE created
    /\ addPresent' = IF name \in streams
                     THEN [addPresent EXCEPT ![name] = @ + 1] ELSE addPresent

\* An EnsureStream that requests the creation whatever the lookup answered.
NeedsCreateAlways(err) == TRUE

\* if err == nats.ErrStreamNotFound { _, err = js.AddStream(...) }
NeedsCreate(err) == err = "notfound"

\* Another producer's message reaches the stream the subscriber consumes.
ExternalStore ==
    /\ ~panicked
    /\ subject \in streams
    /\ pc \notin {"created", "returned"}
    /\ Len(stored) < MaxMsgs
    /\ stored' = Append(stored, [subj |-> subject, id |-> "", st |-> "pending", by |-> 0])
    /\ UNCHANGED <<s, h, parentDone, pc, result, subject, pushVars, submetrics, sublog,
                   panicked, pullVars, conn, streams, created, addPresent, pubVars>>
    /\ UNCHANGED ws

(* ------------------------------------------------------ consumeJetStream *)
\* s.EnsureStream(subject): if s.js == nil return nil
JsEnsure ==
    /\ ~panicked
    /\ pc = "jsEnsure"
    /\ pc' = IF s.js THEN "jsInfo" ELSE "pullSub"
    /\ UNCHANGED <<s, h, parentDone, result, subject, pushVars, submetrics, sublog,
                   panicked, pullVars, brokerVars, pubVars>>
    /\ UNCHANGED ws

\* _, err := s.js.StreamInfo(subject), answered by the broker
JsStreamInfo ==
    /\ ~panicked
    /\ pc = "jsInfo"
    /\ LET err == StreamInfoAnswer(subject) IN
         pc' = IF NeedsCreate(err) THEN "jsAdd" ELSE "pullSub"
    /\ UNCHANGED <<s, h, parentDone, result, subject, pushVars, submetrics, sublog,
                   panicked, pullVars, brokerVars, pubVars>>
    /\ UNCHANGED ws

\* StreamInfo fails for another reason: EnsureStream returns it, Consume returns it.
JsStreamInfoFault ==
    /\ ~panicked
    /\ pc = "jsInfo"
    /\ ~NeedsCreate("fault")
    /\ pc' = "returned"
    /\ result' = "err"
    /\ UNCHANGED <<s, h, parentDone, subject, pushVars, submetrics, sublog,
                   panicked, pullVars, brokerVars, pubVars>>
    /\ UNCHANGED ws

\* _, err = s.js.AddStream(...); return err
JsAddStream(ans) ==
    /\ ~panicked
    /\ pc = "jsAdd"
    /\ ans \in AddStreamAnswers(subject) \cup {"fault"}
    /\ BrokerAddStream(subject, ans)
    /\ pc' = IF ans = "nil" THEN "pullSub" ELSE "returned"
    /\ result' = IF ans = "nil" THEN result ELSE "err"
    /\ UNCHANGED <<s, h, parentDone, subject, pushVars, submetrics, sublog,
                   panicked, pullVars, conn, stored, pubVars>>
    /\ UNCHANGED ws

\* s.js.PullSubscribe(subject, consumerName, nats.BindStream(subject))
JsPullSubscribe(ok) ==
    /\ ~panicked
    /\ pc = "pullSub"
    /\ ok => subject \in streams
    /\ pc' = IF ok THEN "loop" ELSE "returned"
    /\ result' = IF ok THEN result ELSE "err"
    /\ sublog' = IF ok THEN LogLine(sublog, "ready") ELSE sublog
    /\ UNCHANGED <<s, h, parentDone, subject, pushVars, submetrics,
                   panicked, pullVars, brokerVars, pubVars>>
    /\ UNCHANGED ws

\* A fetch loop without the select on parent.Done().
PullLoopNoCheck ==
    /\ ~panicked
    /\ pc = "loop"
    /\ pc' = "fetch"
    /\ UNCHANGED <<s, h, parentDone, result, subject, pushVars, submetrics, sublog,
                   panicked, pullVars, brokerVars, pubVars>>
    /\ UNCHANGED ws

\* select { case <-parent.Done(): return nil; default: ... }
PullLoop ==
    /\ ~panicked
    /\ pc = "loop"
    /\ pc' = IF parentDone THEN "returned" ELSE "fetch"
    /\ result' = IF parentDone THEN "nil" ELSE result
    /\ UNCHANGED <<s, h, parentDone, subject, pushVars, submetrics, sublog,
                   panicked, pullVars, brokerVars, pubVars>>
    /\ UNCHANGED ws

\* The stored messages of the consumer's stream that await (re)delivery.
Pending ==
    SelectSeq([i \in 1..Len(stored) |-> i],
              LAMBDA i : stored[i].subj = subject /\ stored[i].st = "pending")

Min(a, b) == IF a < b THEN a ELSE b

\* msgs, err := sub.Fetch(10, ...) returns the first k pending messages.
PullFetch(k) ==
    /\ ~panicked
    /\ pc = "fetch"
    /\ k \in 1..Min(FetchBatch, Min(Len(Pending), MaxDeliveries - Len(deliv)))
    /\ deliv' = deliv \o [j \in 1..k |-> [m |-> Pending[j], st |-> "fetched",
                                           res |-> "none", acks |-> 0, naks |-> 0]]
    /\ batch' = [j \in 1..k |-> Len(deliv) + j]
    /\ bi' = 1
    /\ fetchErr' = "nil"
    /\ stored' = [i \in 1..Len(stored) |->
                    IF \E j \in 1..k : Pending[j] = i
                    THEN [stored[i] EXCEPT !.st = "outstanding"] ELSE stored[i]]
    /\ pc' = "handle"
    /\ UNCHANGED <<s, h, parentDone, result, subject, pushVars, submetrics, sublog,
                   panicked, conn, streams, created, addPresent, pubVars>>
    /\ UNCHANGED ws

\* A loop that treats nats.ErrTimeout like any other fetch error.
PullFetchTimeoutLogged ==
    /\ ~panicked
    /\ pc = "fetch"
    /\ sublog["fetch error"] < MaxFetchErrors
    /\ sublog' = LogLine(sublog, "fetch error")
    /\ batch' = <<>>
    /\ bi' = 0
    /\ fetchErr' = "timeout"
    /\ pc' = "loop"
    /\ UNCHANGED <<s, h, parentDone, result, subject, pushVars, submetrics,
                   panicked, deliv, brokerVars, pubVars>>
    /\ UNCHANGED ws

\* Fetch returns no message and nats.ErrTimeout: a normal, silent iteration.
PullFetchTimeout ==
    /\ ~panicked
    /\ pc = "fetch"
    /\ batch' = <<>>
    /\ bi' = 0
    /\ fetchErr' = "timeout"
    /\ pc' = "loop"
    /\ UNCHANGED <<s, h, parentDone, result, subject, pushVars, submetrics, sublog,
                   panicked, deliv, brokerVars, pubVars>>
    /\ UNCHANGED ws

\* A fetch loop that gives up on a fetch error.
PullFetchErrorReturns ==
    /\ ~panicked
    /\ pc = "fetch"
    /\ sublog["fetch error"] < MaxFetchErrors
    /\ sublog' = LogLine(sublog, "fetch error")
    /\ fetchErr' = "other"
    /\ batch' = <<>>
    /\ bi' = 0
    /\ pc' = "returned"
    /\ result' = "err"
    /\ UNCHANGED <<s, h, parentDone, subject, pushVars, submetrics,
                   panicked, deliv, brokerVars, pubVars>>
    /\ UNCHANGED ws

\* Fetch returns another error: log it and continue.
PullFetchError ==
    /\ ~panicked
    /\ pc = "fetch"
    /\ sublog["fetch error"] < MaxFetchErrors
    /\ sublog' = LogLine(sublog, "fetch error")
    /\ fetchErr' = "other"
    /\ batch' = <<>>
    /\ bi' = 0
    /\ pc' = "loop"
    /\ UNCHANGED <<s, h, parentDone, result, subject, pushVars, submetrics,
                   panicked, deliv, brokerVars, pubVars>>
    /\ UNCHANGED ws

\* for _, msg := range msgs: the handler is called with the next message.
PullHandlerStart ==
    /\ ~panicked
    /\ pc = "handle"
    /\ deliv' = [deliv EXCEPT ![batch[bi]].st = "handling"]
    /\ submetrics' = IncMetric(submetrics, "received")
    /\ pc' = "inHandler"
    /\ UNCHANGED <<s, h, parentDone, result, subject, pushVars, sublog,
                   panicked, batch, fetchErr, bi, brokerVars, pubVars>>
    /\ UNCHANGED ws

\* A range loop that goes to the next message without msg.Nak() / msg.Ack().
PullHandlerReturnUnsettled(err) ==
    /\ ~panicked
    /\ pc = "inHandler"
    /\ err = (deliv[batch[bi]].m \in h)
    /\ deliv' = [deliv EXCEPT ![batch[bi]].st = "returned",
                              ![batch[bi]].res = IF err THEN "err" ELSE "ok"]
    /\ submetrics' = IncMetric(IncMetric(submetrics, IF err THEN "error" ELSE "processed"),
                               "observe")
    /\ sublog' = IF err THEN LogLine(sublog, "handler error") ELSE sublog
    /\ bi' = bi + 1
    /\ pc' = IF bi < Len(batch) THEN "handle" ELSE "loop"
    /\ UNCHANGED <<s, h, parentDone, result, subject, pushVars,
                   panicked, batch, fetchErr, brokerVars, pubVars>>
    /\ UNCHANGED ws

\* err := h(ctx, msg.Data) returns.
PullHandlerReturn(err) ==
    /\ ~panicked
    /\ pc = "inHandler"
    /\ err = (deliv[batch[bi]].m \in h)
    /\ deliv' = [deliv EXCEPT ![batch[bi]].st = "returned",
                              ![batch[bi]].res = IF err THEN "err" ELSE "ok"]
    /\ submetrics' = IncMetric(IncMetric(submetrics, IF err THEN "error" ELSE "processed"),
                               "observe")
    /\ sublog' = IF err THEN LogLine(sublog, "handler error") ELSE sublog
    /\ pc' = "settle"
    /\ UNCHANGED <<s, h, parentDone, result, subject, pushVars,
                   panicked, batch, fetchErr, bi, brokerVars, pubVars>>
    /\ UNCHANGED ws

\* The same without the continue: a failed message is Nak'ed and then Ack'ed.
SettleCallsNoContinue(res) ==
    IF res = "err" THEN [acks |-> 1, naks |-> 1] ELSE [acks |-> 1, naks |-> 0]

\* if err != nil { msg.Nak(); continue }; msg.Ack(): the calls made for one message.
SettleCalls(res) ==
    IF res = "err" THEN [acks |-> 0, naks |-> 1] ELSE [acks |-> 1, naks |-> 0]

\* The broker's consumer after the calls: Nak asks for redelivery, Ack commits.
BrokerSettle(st, sc) ==
    IF sc.naks > 0 /\ sc.acks = 0 THEN "pending"
    ELSE IF sc.acks > 0 THEN "acked" ELSE st

\* A range loop that returns as soon as it sees the context cancelled.
PullSettleThenCheck(ok) ==
    /\ ~panicked
    /\ pc = "settle"
    /\ LET d == batch[bi]
           sc == SettleCalls(deliv[d].res)
       IN /\ deliv' = [deliv EXCEPT ![d].st = "settled",
                                    ![d].acks = @ + sc.acks,
                                    ![d].naks = @ + sc.naks]
          /\ stored' = IF ok THEN [stored EXCEPT ![deliv[d].m].st = BrokerSettle(@, sc)]
                        ELSE stored
    /\ bi' = bi + 1
    /\ pc' = IF parentDone THEN "returned" ELSE IF bi < Len(batch) THEN "handle" ELSE "loop"
    /\ result' = IF parentDone THEN "nil" ELSE result
    /\ UNCHANGED <<s, h, parentDone, subject, pushVars, submetrics, sublog,
                   panicked, batch, fetchErr, conn, streams, created, addPresent, pubVars>>
    /\ UNCHANGED ws

\* msg.Nak() / msg.Ack(), the returned error discarded: ok tells whether the call
\* reached the broker.
PullSettle(ok) ==
    /\ ~panicked
    /\ pc = "settle"
    /\ LET d == batch[bi]
           sc == SettleCalls(deliv[d].res)
       IN /\ deliv' = [deliv EXCEPT ![d].st = "settled",
                                    ![d].acks = @ + sc.acks,
                                    ![d].naks = @ + sc.naks]
          /\ stored' = IF ok THEN [stored EXCEPT ![deliv[d].m].st = BrokerSettle(@, sc)]
                        ELSE stored
    /\ bi' = bi + 1
    /\ pc' = IF bi < Len(batch) THEN "handle" ELSE "loop"
    /\ UNCHANGED <<s, h, parentDone, result, subject, pushVars, submetrics, sublog,
                   panicked, batch, fetchErr, conn, streams, created, addPresent, pubVars>>
    /\ UNCHANGED ws

PullSteps ==
    \/ JsEnsure
    \/ JsStreamInfo
    \/ JsStreamInfoFault
    \/ \E ans \in {"nil", "exists", "fault"} : JsAddStream(ans)
    \/ \E ok \in BOOLEAN : JsPullSubscribe(ok)
    \/ PullLoop
    \/ \E k \in 1..FetchBatch : PullFetch(k)
    \/ PullFetchTimeout
    \/ PullFetchError
    \/ PullHandlerStart
    \/ \E err \in BOOLEAN : PullHandlerReturn(err)
    \/ \E ok \in BOOLEAN : PullSettle(ok)

NextPull == ExternalStore \/ PullSteps

NextPush ==
    \/ CoreMake
    \/ \E w \in DOMAIN workers : WorkerRecv(w)
    \/ \E w \in DOMAIN workers, err \in BOOLEAN : WorkerHandlerReturn(w, err)
    \/ \E w \in DOMAIN workers : WorkerExit(w)
    \/ CbStart
    \/ CbEnqueue
    \/ CbSendOnClosed
    \/ CbParentDone
    \/ CbDrop
    \/ \E ok \in BOOLEAN : CoreSubscribe(ok)
    \/ \E ok \in BOOLEAN : CoreFlush(ok)
    \/ CoreUnsubscribe
    \/ CoreErrClose
    \/ CoreErrWait
    \/ CoreAwaitDone
    \/ CoreDrain
    \/ BrokerDrainDone
    \/ CoreClose
    \/ CoreWait

NextSub ==
    \/ Cancel
    \/ Consume
    \/ NextPush
    \/ NextPull

SpecSub == InitSub /\ [][NextSub]_vars

\* The goroutine that runs Consume: its steps in program order, the handler call of
\* pull mode and the answers of the broker calls it makes included.
ConsumeThread ==
    \/ Consume
    \/ CoreMake
    \/ \E ok \in BOOLEAN : CoreSubscribe(ok)
    \/ \E ok \in BOOLEAN : CoreFlush(ok)
    \/ CoreUnsubscribe
    \/ CoreErrClose
    \/ CoreErrWait
    \/ CoreAwaitDone
    \/ CoreDrain
    \/ CoreClose
    \/ CoreWait
    \/ PullSteps

\* One worker goroutine of consumeCore.
WorkerThread(w) ==
    /\ w \in DOMAIN workers
    /\ \/ WorkerRecv(w)
       \/ \E err \in BOOLEAN : WorkerHandlerReturn(w, err)
       \/ WorkerExit(w)

\* The Go scheduler runs every goroutine that can take a step; every handler
\* invocation terminates and every broker call returns. Nothing obliges the caller
\* to cancel, nor the broker to deliver.
Fairness ==
    /\ WF_vars(ConsumeThread)
    /\ \A w \in 0..(MaxConcurrency - 1) : WF_vars(WorkerThread(w))

\* A subscriber built without a metrics recorder, prefix and queue group (none of
\* them changes a step of Consume).
InitSubLive ==
    /\ InitSub
    /\ ~s.metrics
    /\ s.prefix = ""

SpecSubLive == InitSubLive /\ [][NextSub]_vars /\ Fairness

\* A subscriber with or without SubWithContextFn, without metrics and prefix.
InitCtx ==
    /\ ws = NewManager
    /\ NewSubscriber
    /\ ~s.metrics
    /\ s.prefix = ""
    /\ InitConsume
    /\ InitBroker
    /\ p = [prefix |-> "", js |-> TRUE, useJetStream |-> TRUE, metrics |-> FALSE]
    /\ calls = [c \in CallSlots |-> IdleCall]
    /\ xids = 0
    /\ ensuredOk = {}

SpecCtx == InitCtx /\ [][NextSub]_vars

(* ------------------------------------------------------------- Publisher *)
subVars == <<s, h, parentDone, pc, result, subject, pushVars, submetrics, sublog,
             panicked, pullVars>>

\* The caller's ids for PublishWithID ("" asks for a generated one).
MsgIDs == {"", "k1"}

\* select { case <-ctx.Done(): return ctx.Err(); default: } that never fires.
CtxCheckSkipped(ctx) == FALSE

\* select { case <-ctx.Done(): return ctx.Err(); default: }
CtxCheck(ctx) == ctx # "live"

\* A publisher that leaves an empty id empty.
DedupIDKept(arg, n) == arg

\* A publisher that always generates the id.
DedupIDFresh(arg, n) == "xid" \o ToString(n)

\* if msgID == "" { msgID = xid.New().String() }
DedupID(arg, n) == IF arg = "" THEN "xid" \o ToString(n) ELSE arg

\* The recorder of the Publisher a call is made on: none (p.metrics == nil), or one
\* whose calls succeed, return an error, or do not return.
Recorders == {"none", "ok", "fail", "hang"}

\* A publisher that returns the recorder's error to its caller.
PubMetricChecked(call, status) ==
    IF call.rec = "none" THEN call
    ELSE IF call.rec = "fail"
    THEN [call EXCEPT !.metric = Append(@, status), !.res = "metrics"]
    ELSE [call EXCEPT !.metric = IF status = "success"
                                 THEN @ \o <<"success", "observe">>
                                 ELSE Append(@, status)]

\* if p.metrics != nil { p.metrics.IncWithTags(ctx, "nats_publish_total", 1, tags) },
\* on success followed by ObserveWithTags of the duration; the value the recorder
\* returns is discarded; the call is synchronous: while the recorder does not
\* return, PublishWithID does not go on.
PubMetric(call, status) ==
    IF call.rec = "none" THEN call
    ELSE IF call.rec = "hang"
    THEN [call EXCEPT !.metric = Append(@, status), !.pc = "inMetric", !.res = "none"]
    ELSE [call EXCEPT !.metric = IF status = "success"
                                 THEN @ \o <<"success", "observe">>
                                 ELSE Append(@, status)]

\* The contexts a caller passes: [has a deadline, state at the call].
Contexts == {<<FALSE, "live">>, <<TRUE, "live">>, <<FALSE, "canceled">>, <<TRUE, "deadline">>}

\* PublishWithID(ctx, subject, msg, id) on a Publisher whose recorder is rc;
\* Publish(ctx, subject, msg) is the call with id "".
PublishCallOn(c, sb, id, mar, dl, cx, rc) ==
    /\ ~panicked
    /\ calls[c].pc = "idle"
    /\ <<dl, cx>> \in Contexts
    /\ calls' = [calls EXCEPT ![c] =
                   [IdleCall EXCEPT !.pc = "check", !.op = "PublishWithID", !.subj = sb,
                                    !.arg = id, !.rec = rc,
                                    !.msgID = id, !.marshals = mar, !.deadline = dl,
                                    !.ctx = cx, !.doneAtCall = (cx # "live")]]
    /\ UNCHANGED <<subVars, brokerVars, p, xids, ensuredOk>>
    /\ UNCHANGED ws

\* The call on the Publisher p, whose recorder, when it has one, answers.
PublishCall(c, sb, id, mar, dl, cx) ==
    PublishCallOn(c, sb, id, mar, dl, cx, IF p.metrics THEN "ok" ELSE "none")

\* The context is cancelled, or its deadline passes, after the call was made and
\* before PublishWithID reads it (it reads ctx.Done() once, in its first statement).
CtxCancel(c) ==
    /\ ~panicked
    /\ calls[c].pc = "check"
    /\ calls[c].ctx = "live"
    /\ calls' = [calls EXCEPT ![c].ctx = IF calls[c].deadline THEN "deadline" ELSE "canceled"]
    /\ UNCHANGED <<subVars, brokerVars, p, xids, ensuredOk>>
    /\ UNCHANGED ws

\* PublishWithID up to its first broker call: the cancellation check, the prefix,
\* the choice of the path, the generated id.
PublishCheck(c) ==
    /\ ~panicked
    /\ calls[c].pc = "check"
    /\ IF CtxCheck(calls[c].ctx)
       THEN /\ calls' = [calls EXCEPT ![c].pc = "done", ![c].res = calls[c].ctx]
            /\ UNCHANGED xids
       ELSE IF p.useJetStream /\ p.js
       THEN /\ calls' = [calls EXCEPT
                           ![c].subj = p.prefix \o @,
                           ![c].msgID = DedupID(calls[c].arg, xids + 1),
                           ![c].afterOk = (p.prefix \o calls[c].subj) \in ensuredOk,
                           ![c].pc = "info"]
            /\ xids' = IF calls[c].arg = "" THEN xids + 1 ELSE xids
       ELSE /\ calls' = [calls EXCEPT ![c].subj = p.prefix \o @, ![c].pc = "marshalCore"]
            /\ UNCHANGED xids
    /\ UNCHANGED <<subVars, brokerVars, p, ensuredOk>>
    /\ UNCHANGED ws

\* An EnsureStream without the js == nil test.
EnsureStreamCallUnguarded(c, rv, sb) ==
    /\ ~panicked
    /\ calls[c].pc = "idle"
    /\ calls' = [calls EXCEPT ![c] =
                   [IdleCall EXCEPT !.op = "EnsureStream", !.recv = rv, !.subj = sb,
                                    !.afterOk = sb \in ensuredOk, !.pc = "info"]]
    /\ UNCHANGED <<subVars, brokerVars, p, xids, ensuredOk>>
    /\ UNCHANGED ws

\* EnsureStream(subject) called on a Publisher or a Subscriber: if js == nil return nil
EnsureStreamCall(c, rv, sb) ==
    /\ ~panicked
    /\ calls[c].pc = "idle"
    /\ LET js == IF rv = "p" THEN p.js ELSE s.js IN
        /\ calls' = [calls EXCEPT ![c] =
                       [IdleCall EXCEPT !.op = "EnsureStream", !.recv = rv, !.subj = sb,
                                        !.afterOk = sb \in ensuredOk,
                                        !.pc = IF js THEN "info" ELSE "done",
                                        !.ens = IF js THEN "none" ELSE "nil",
                                        !.res = IF js THEN "none" ELSE "nil"]]
        /\ ensuredOk' = IF js THEN ensuredOk ELSE ensuredOk \cup {sb}
    /\ UNCHANGED <<subVars, brokerVars, p, xids>>
    /\ UNCHANGED ws

\* A PublishWithID that goes on whatever EnsureStream returned.
EnsureReturnIgnored(call, err) ==
    IF call.op = "EnsureStream"
    THEN [call EXCEPT !.ens = err, !.res = err, !.pc = "done"]
    ELSE [call EXCEPT !.ens = err, !.pc = "marshal"]

\* EnsureStream returns err: to the caller, or into PublishWithID, which returns it
\* or goes on to serialize the message.
EnsureReturn(call, err) ==
    IF call.op = "EnsureStream" \/ err # "nil"
    THEN [call EXCEPT !.ens = err, !.res = err, !.pc = "done"]
    ELSE [call EXCEPT !.ens = err, !.pc = "marshal"]

\* _, err := js.StreamInfo(subject), answered by the broker
EnsureStreamInfo(c) ==
    /\ ~panicked
    /\ calls[c].pc = "info"
    /\ LET err == StreamInfoAnswer(calls[c].subj)
           call == [calls[c] EXCEPT !.ops = Append(@, "StreamInfo"), !.ans = Append(@, err)]
       IN /\ calls' = [calls EXCEPT ![c] = IF NeedsCreate(err)
                                           THEN [call EXCEPT !.pc = "add"]
                                           ELSE EnsureReturn(call, err)]
          /\ ensuredOk' = IF NeedsCreate(err) \/ err # "nil" THEN ensuredOk
                          ELSE ensuredOk \cup {calls[c].subj}
    /\ UNCHANGED <<subVars, brokerVars, p, xids>>
    /\ UNCHANGED ws

\* StreamInfo fails for another reason.
EnsureStreamInfoFault(c) ==
    /\ ~panicked
    /\ calls[c].pc = "info"
    /\ ~NeedsCreate("fault")
    /\ calls' = [calls EXCEPT ![c] =
                   EnsureReturn([calls[c] EXCEPT !.ops = Append(@, "StreamInfo"),
                                                !.ans = Append(@, "fault")], "fault")]
    /\ UNCHANGED <<subVars, brokerVars, p, xids, ensuredOk>>
    /\ UNCHANGED ws

\* _, err = js.AddStream(...); return err
EnsureAddStream(c, ans) ==
    /\ ~panicked
    /\ calls[c].pc = "add"
    /\ ans \in AddStreamAnswers(calls[c].subj)
    /\ BrokerAddStream(calls[c].subj, ans)
    /\ calls' = [calls EXCEPT ![c] =
                   EnsureReturn([calls[c] EXCEPT !.ops = Append(@, "AddStream"),
                                                !.ans = Append(@, ans)], ans)]
    /\ ensuredOk' = IF ans = "nil" THEN ensuredOk \cup {calls[c].subj} ELSE ensuredOk
    /\ UNCHANGED <<subVars, conn, stored, p, xids>>
    /\ UNCHANGED ws

\* AddStream fails for another reason than the name being in use.
EnsureAddStreamFault(c) ==
    /\ ~panicked
    /\ calls[c].pc = "add"
    /\ BrokerAddStream(calls[c].subj, "fault")
    /\ calls' = [calls EXCEPT ![c] =
                   EnsureReturn([calls[c] EXCEPT !.ops = Append(@, "AddStream"),
                                                !.ans = Append(@, "fault")], "fault")]
    /\ UNCHANGED <<subVars, conn, stored, p, xids, ensuredOk>>
    /\ UNCHANGED ws

\* data, err := json.Marshal(msg), on either path.
PublishMarshal(c) ==
    /\ ~panicked
    /\ calls[c].pc \in {"marshal", "marshalCore"}
    /\ LET call == [calls[c] EXCEPT !.ops = Append(@, "Marshal")]
       IN calls' = [calls EXCEPT ![c] =
                      IF call.marshals
                      THEN [call EXCEPT
                              !.pc = IF @ = "marshal" THEN "jsPublish" ELSE "corePublish"]
                      ELSE PubMetric([call EXCEPT !.res = "marshal", !.pc = "done"],
                                     "marshal_error")]
    /\ UNCHANGED <<subVars, brokerVars, p, xids, ensuredOk>>
    /\ UNCHANGED ws

\* The broker suppresses a message whose id its stream already holds.
Duplicate(name, id) ==
    id # "" /\ \E i \in DOMAIN stored : stored[i].subj = name /\ stored[i].id = id

\* p.js.PublishMsg(&nats.Msg{Subject, Data, Header{"Nats-Msg-Id": msgID}})
PublishJetStream(c, ok) ==
    /\ ~panicked
    /\ calls[c].pc = "jsPublish"
    /\ ok => calls[c].subj \in streams
    /\ LET call == [calls[c] EXCEPT !.ops = Append(@, "PublishMsg"),
                                    !.ans = Append(@, IF ok THEN "nil" ELSE "err"),
                                    !.hdr = calls[c].msgID, !.pc = "done"]
       IN IF ok
          THEN /\ stored' = IF Duplicate(call.subj, call.hdr) THEN stored
                            ELSE Append(stored, [subj |-> call.subj, id |-> call.hdr,
                                                 st |-> "pending", by |-> c])
               /\ calls' = [calls EXCEPT ![c] =
                              PubMetric([call EXCEPT !.res = "nil"], "success")]
          ELSE /\ stored' = stored
               /\ calls' = [calls EXCEPT ![c] =
                              PubMetric([call EXCEPT !.res = "publish"], "publish_error")]
    /\ UNCHANGED <<subVars, conn, streams, created, addPresent, p, xids, ensuredOk>>
    /\ UNCHANGED ws

\* A publisher that tries again when the broker refuses the message.
PublishCoreRetry(c, ok) ==
    /\ ~panicked
    /\ calls[c].pc = "corePublish"
    /\ Len(calls[c].ops) < 4
    /\ LET call == [calls[c] EXCEPT !.ops = Append(@, "Publish"),
                                    !.ans = Append(@, IF ok THEN "nil" ELSE "err")]
       IN calls' = [calls EXCEPT ![c] = IF ok THEN [call EXCEPT !.pc = "flush"] ELSE call]
    /\ UNCHANGED <<subVars, brokerVars, p, xids, ensuredOk>>
    /\ UNCHANGED ws

\* p.conn.Publish(subject, data)
PublishCore(c, ok) ==
    /\ ~panicked
    /\ calls[c].pc = "corePublish"
    /\ LET call == [calls[c] EXCEPT !.ops = Append(@, "Publish"),
                                    !.ans = Append(@, IF ok THEN "nil" ELSE "err")]
       IN calls' = [calls EXCEPT ![c] =
                      IF ok THEN [call EXCEPT !.pc = "flush"]
                      ELSE PubMetric([call EXCEPT !.res = "publish", !.pc = "done"],
                                     "publish_error")]
    /\ UNCHANGED <<subVars, brokerVars, p, xids, ensuredOk>>
    /\ UNCHANGED ws

\* A flush that ignores the deadline of the context.
PublishFlushUnbounded(c, ok) ==
    /\ ~panicked
    /\ calls[c].pc = "flush"
    /\ LET call == [calls[c] EXCEPT !.ops = Append(@, "Flush"),
                                    !.ans = Append(@, IF ok THEN "nil" ELSE "err"),
                                    !.pc = "done"]
       IN calls' = [calls EXCEPT ![c] =
                      IF ok THEN PubMetric([call EXCEPT !.res = "nil"], "success")
                      ELSE PubMetric([call EXCEPT !.res = "flush"], "flush_error")]
    /\ UNCHANGED <<subVars, brokerVars, p, xids, ensuredOk>>
    /\ UNCHANGED ws

\* p.conn.FlushTimeout(time.Until(dl)) with a deadline, p.conn.Flush() without.
PublishFlush(c, ok) ==
    /\ ~panicked
    /\ calls[c].pc = "flush"
    /\ LET call == [calls[c] EXCEPT
                      !.ops = Append(@, IF calls[c].deadline THEN "FlushTimeout" ELSE "Flush"),
                      !.ans = Append(@, IF ok THEN "nil" ELSE "err"),
                      !.pc = "done"]
       IN calls' = [calls EXCEPT ![c] =
                      IF ok THEN PubMetric([call EXCEPT !.res = "nil"], "success")
                      ELSE PubMetric([call EXCEPT !.res = "flush"], "flush_error")]
    /\ UNCHANGED <<subVars, brokerVars, p, xids, ensuredOk>>
    /\ UNCHANGED ws

\* The steps of the calls in progress, the broker answering without transport faults.
CallSteps(c) ==
    \/ PublishCheck(c)
    \/ EnsureStreamInfo(c)
    \/ \E ans \in {"nil", "exists"} : EnsureAddStream(c, ans)
    \/ PublishMarshal(c)
    \/ \E ok \in BOOLEAN : PublishJetStream(c, ok)
    \/ \E ok \in BOOLEAN : PublishCore(c, ok)
    \/ \E ok \in BOOLEAN : PublishFlush(c, ok)

\* Cancellation racing with the call, and lookups / creations that fail in transport.
CallFaults(c) ==
    \/ CtxCancel(c)
    \/ EnsureStreamInfoFault(c)
    \/ EnsureAddStreamFault(c)

\* A caller makes a call.
CallStart(c) ==
    \/ \E sb \in Subjects, id \in MsgIDs, mar \in BOOLEAN, dl \in BOOLEAN,
          cx \in {"live", "canceled", "deadline"} :
            PublishCall(c, sb, id, mar, dl, cx)
    \/ \E rv \in {"p", "s"}, sb \in StreamNames : EnsureStreamCall(c, rv, sb)

\* Calls take the slots in order (the slots are interchangeable).
NextSlot(c) == \A c2 \in CallSlots : c2 < c => calls[c2].pc # "idle"

NextPub ==
    \/ \E c \in PubSlots : NextSlot(c) /\ CallStart(c)
    \/ \E c \in PubSlots : CallSteps(c)
    \/ \E c \in PubSlots : CallFaults(c)

\* Publishers and EnsureStream callers running concurrently against one broker.
InitPub ==
    /\ ws = NewManager
    /\ NewPublisher
    /\ InitBroker
    /\ InitConsume
    /\ h = {}
    /\ s = [prefix |-> "", queue |-> "", concurrency |-> 1, js |-> p.js,
            useJetStream |-> TRUE, metrics |-> FALSE, deriveCtx |-> "default"]

SpecPub == InitPub /\ [][NextPub]_vars

\* Publishers built on one connection with the same options except WithMetrics:
\* p holds the shared options, each call is made on the publisher of its recorder.
InitRec ==
    /\ InitPub
    /\ ~p.metrics

\* A call with a live context (it may be cancelled before it is read).
RecStart(c) ==
    \E sb \in Subjects, id \in MsgIDs, mar \in BOOLEAN, dl \in BOOLEAN,
       rc \in Recorders :
        PublishCallOn(c, sb, id, mar, dl, "live", rc)

NextRec ==
    \/ \E c \in PubSlots : NextSlot(c) /\ RecStart(c)
    \/ \E c \in PubSlots : CallSteps(c)
    \/ \E c \in PubSlots : CallFaults(c)

SpecRec == InitRec /\ [][NextRec]_vars

\* A durable publisher and a pull subscriber on the same subject of one broker:
\* PublishWithID calls with a live context and a message that serializes.
InitDurable ==
    /\ ws = NewManager
    /\ InitBroker
    /\ InitConsume
    /\ calls = [c \in CallSlots |-> IdleCall]
    /\ xids = 0
    /\ ensuredOk = {}
    /\ \E o \in SubNames :
         /\ s = [prefix |-> o[1], queue |-> o[2], concurrency |-> 1, js |-> TRUE,
                 useJetStream |-> TRUE, metrics |-> FALSE, deriveCtx |-> "default"]
         /\ p = [prefix |-> o[1], js |-> TRUE, useJetStream |-> TRUE, metrics |-> FALSE]

DurableSteps(c) ==
    \/ \E id \in MsgIDs : NextSlot(c) /\ PublishCall(c, "a", id, TRUE, FALSE, "live")
    \/ PublishCheck(c)
    \/ EnsureStreamInfo(c)
    \/ \E ans \in {"nil", "exists"} : EnsureAddStream(c, ans)
    \/ PublishMarshal(c)
    \/ \E ok \in BOOLEAN : PublishJetStream(c, ok)

NextDurable ==
    \/ \E c \in PubSlots : DurableSteps(c)
    \/ Cancel
    \/ Consume
    \/ PullSteps

SpecDurable == InitDurable /\ [][NextDurable]_vars

\* The calls made one after the other, against a broker without transport faults.
NoCallInProgress == \A c \in CallSlots : calls[c].pc \in {"idle", "done"}

NextSeq ==
    \/ \E c \in SeqSlots : NextSlot(c) /\ NoCallInProgress /\ CallStart(c)
    \/ \E c \in SeqSlots : CallSteps(c)

SpecSeq == InitPub /\ [][NextSeq]_vars

(* ------------------------------------------------- websocket connection manager *)
\* The sequences that list the elements of S once each: the orders in which a range
\* over a map can visit its keys.
Orders(S) ==
    {q \in [1..Cardinality(S) -> S] : \A i, j \in 1..Cardinality(S) : i # j => q[i] # q[j]}

\* The ids in a room: the inner map m.rooms[room].
RoomSet(room) == {id \in WsIds : <<room, id>> \in ws.rooms}

WsWriteOps == {"Register", "Unregister", "JoinRoom", "LeaveRoom"}
WsReadOps == {"SendTo", "SendToRoom", "Broadcast"}

\* Some other goroutine is inside the critical section of an operation that writes
\* the map named mp.
WriterIn(t, mp) ==
    \E u \in WsThreads \ {t} :
        /\ ws.writer = u
        /\ ws.th[u].pc = "body"
        /\ \/ mp \in {"conns", "ctxs"} /\ ws.th[u].op \in {"Register", "Unregister"}
           \/ mp = "rooms" /\ ws.th[u].op \in {"Unregister", "JoinRoom", "LeaveRoom"}

\* Goroutine t reads or writes the map mp at the source line given. Without m.mu
\* held the access is recorded; when a writer of that map is in its critical
\* section at that moment the two accesses race.
MapAccess(w, t, mp, line) ==
    IF ws.th[t].held # "none" THEN w
    ELSE [w EXCEPT !.unprot = @ \cup {line},
                   !.race = @ \/ WriterIn(t, mp)]

\* A goroutine calls the manager.
WsCall(t, op, id, room) ==
    /\ ~ws.crashed
    /\ ws.th[t].pc = "idle"
    /\ ws' = [ws EXCEPT !.th[t] =
                 [WsIdle EXCEPT !.op = op, !.id = id, !.room = room,
                                !.pc = IF op \in WsWriteOps THEN "lock" ELSE "rlock",
                                !.next = CASE op \in WsWriteOps -> "body"
                                           [] op = "SendTo" -> "stRead"
                                           [] op = "SendToRoom" -> "roomLookup"
                                           [] op = "Broadcast" -> "bcIds"]]
    /\ UNCHANGED <<subVars, brokerVars, pubVars>>

\* m.mu.Lock()
WsLock(t) ==
    /\ ~ws.crashed
    /\ ws.th[t].pc = "lock"
    /\ ws.writer = 0 /\ ws.readers = {}
    /\ ws' = [ws EXCEPT !.writer = t, !.th[t].held = "w", !.th[t].pc = ws.th[t].next]
    /\ UNCHANGED <<subVars, brokerVars, pubVars>>

\* defer m.mu.Unlock()
WsUnlock(t) ==
    /\ ~ws.crashed
    /\ ws.th[t].pc = "unlock"
    /\ ws' = [ws EXCEPT !.writer = 0, !.th[t] = WsIdle]
    /\ UNCHANGED <<subVars, brokerVars, pubVars>>

\* m.mu.RLock()
WsRLock(t) ==
    /\ ~ws.crashed
    /\ ws.th[t].pc = "rlock"
    /\ ws.writer = 0
    /\ ws' = [ws EXCEPT !.readers = @ \cup {t}, !.th[t].held = "r",
                        !.th[t].pc = ws.th[t].next]
    /\ UNCHANGED <<subVars, brokerVars, pubVars>>

\* m.mu.RUnlock()
WsRUnlock(t) ==
    /\ ~ws.crashed
    /\ ws.th[t].pc = "runlock"
    /\ ws' = [ws EXCEPT !.readers = @ \ {t}, !.th[t].held = "none",
                        !.th[t].pc = ws.th[t].next]
    /\ UNCHANGED <<subVars, brokerVars, pubVars>>

\* Register: if the id is connected return the conflict error, else store the
\* connection and its context.
WsRegister(t) ==
    /\ ~ws.crashed
    /\ ws.th[t].pc = "body" /\ ws.th[t].op = "Register"
    /\ LET id == ws.th[t].id
           w1 == MapAccess(MapAccess(ws, t, "conns", "Register:109"), t, "ctxs", "Register:120")
       IN ws' = [w1 EXCEPT !.conns = @ \cup {id},
                           !.ctxs = IF id \in ws.conns THEN @ ELSE @ \cup {id},
                           !.th[t].pc = "unlock"]
    /\ UNCHANGED <<subVars, brokerVars, pubVars>>

\* Unregister: close and delete the connection, delete its context, take the id
\* out of every room and delete the rooms left empty.
WsUnregister(t) ==
    /\ ~ws.crashed
    /\ ws.th[t].pc = "body" /\ ws.th[t].op = "Unregister"
    /\ LET id == ws.th[t].id
           w1 == MapAccess(MapAccess(MapAccess(ws, t, "conns", "Unregister:132"),
                                     t, "ctxs", "Unregister:136"), t, "rooms", "Unregister:142")
       IN ws' = [w1 EXCEPT !.conns = @ \ {id},
                           !.ctxs = @ \ {id},
                           !.rooms = {rm \in @ : rm[2] # id},
                           !.th[t].pc = "unlock"]
    /\ UNCHANGED <<subVars, brokerVars, pubVars>>

\* JoinRoom: make the room when it is missing, put the id in.
WsJoinRoom(t) ==
    /\ ~ws.crashed
    /\ ws.th[t].pc = "body" /\ ws.th[t].op = "JoinRoom"
    /\ LET w1 == MapAccess(MapAccess(ws, t, "rooms", "JoinRoom:154"), t, "ctxs", "JoinRoom:159")
       IN ws' = [w1 EXCEPT !.rooms = @ \cup {<<ws.th[t].room, ws.th[t].id>>},
                           !.th[t].pc = "unlock"]
    /\ UNCHANGED <<subVars, brokerVars, pubVars>>

\* LeaveRoom: take the id out of the room, delete the room when it is left empty.
WsLeaveRoom(t) ==
    /\ ~ws.crashed
    /\ ws.th[t].pc = "body" /\ ws.th[t].op = "LeaveRoom"
    /\ LET w1 == MapAccess(MapAccess(ws, t, "rooms", "LeaveRoom:168"), t, "ctxs", "LeaveRoom:175")
       IN ws' = [w1 EXCEPT !.rooms = @ \ {<<ws.th[t].room, ws.th[t].id>>},
                           !.th[t].pc = "unlock"]
    /\ UNCHANGED <<subVars, brokerVars, pubVars>>

\* SendTo: c, ok := m.conns[id]; ctx := m.ctxs[id]
WsSendToRead(t) ==
    /\ ~ws.crashed
    /\ ws.th[t].pc = "stRead"
    /\ LET w1 == MapAccess(MapAccess(ws, t, "conns", "SendTo:182"), t, "ctxs", "SendTo:183")
       IN ws' = [w1 EXCEPT !.th[t].pc = "runlock", !.th[t].next = "stWrite"]
    /\ UNCHANGED <<subVars, brokerVars, pubVars>>

\* SendTo after the unlock: the not-connected error or c.WriteMessage; in SendToRoom
\* and Broadcast the loop then calls SendTo for the next id.
WsSendToWrite(t) ==
    /\ ~ws.crashed
    /\ ws.th[t].pc = "stWrite"
    /\ ws' = [ws EXCEPT !.th[t] =
                 IF ws.th[t].ids = <<>> THEN WsIdle
                 ELSE [ws.th[t] EXCEPT !.id = Head(ws.th[t].ids), !.ids = Tail(ws.th[t].ids),
                                       !.pc = "rlock", !.next = "stRead"]]
    /\ UNCHANGED <<subVars, brokerVars, pubVars>>

\* SendToRoom: set, ok := m.rooms[room]
WsRoomLookup(t) ==
    /\ ~ws.crashed
    /\ ws.th[t].pc = "roomLookup"
    /\ LET w1 == MapAccess(ws, t, "rooms", "SendToRoom:205")
       IN ws' = [w1 EXCEPT !.th[t].pc = "runlock",
                           !.th[t].next = IF RoomSet(ws.th[t].room) # {} THEN "rlock2"
                                          ELSE "return"]
    /\ UNCHANGED <<subVars, brokerVars, pubVars>>

\* SendToRoom: if !ok { return }, else the second m.mu.RLock() is next.
WsRoomChecked(t) ==
    /\ ~ws.crashed
    /\ ws.th[t].pc \in {"rlock2", "return"}
    /\ ws' = [ws EXCEPT !.th[t] =
                 IF ws.th[t].pc = "return" THEN WsIdle
                 ELSE [ws.th[t] EXCEPT !.pc = "rlock", !.next = "roomIds"]]
    /\ UNCHANGED <<subVars, brokerVars, pubVars>>

\* SendToRoom: for id := range set { ids = append(ids, id) }, over the room's map as
\* it is now.
WsRoomIds(t, q) ==
    /\ ~ws.crashed
    /\ ws.th[t].pc = "roomIds"
    /\ q \in Orders(RoomSet(ws.th[t].room))
    /\ LET w1 == MapAccess(ws, t, "rooms", "SendToRoom:213")
       IN ws' = [w1 EXCEPT !.th[t].ids = q, !.th[t].pc = "runlock",
                           !.th[t].next = "ctxRead"]
    /\ UNCHANGED <<subVars, brokerVars, pubVars>>

\* Broadcast: for id := range m.conns { ids = append(ids, id) }
WsBroadcastIds(t, q) ==
    /\ ~ws.crashed
    /\ ws.th[t].pc = "bcIds"
    /\ q \in Orders(ws.conns)
    /\ LET w1 == MapAccess(ws, t, "conns", "Broadcast:235")
       IN ws' = [w1 EXCEPT !.th[t].ids = q, !.th[t].pc = "runlock",
                           !.th[t].next = "ctxRead"]
    /\ UNCHANGED <<subVars, brokerVars, pubVars>>

\* SendToRoom / Broadcast: if len(ids) > 0 { ctx = m.ctxs[ids[0]] }, then the loop
\* over ids. A read that races with a write of the map either goes through or ends
\* the process (fatal error: concurrent map read and map write).
WsCtxRead(t, crash) ==
    /\ ~ws.crashed
    /\ ws.th[t].pc = "ctxRead"
    /\ LET line == IF ws.th[t].op = "SendToRoom" THEN "SendToRoom:220" ELSE "Broadcast:242"
           w1 == IF ws.th[t].ids = <<>> THEN ws ELSE MapAccess(ws, t, "ctxs", line)
           racing == ws.th[t].ids # <<>> /\ ws.th[t].held = "none" /\ WriterIn(t, "ctxs")
       IN /\ crash => racing
          /\ ws' = [w1 EXCEPT !.crashed = crash,
                              !.th[t].pc = "stWrite"]
    /\ UNCHANGED <<subVars, brokerVars, pubVars>>

WsSteps(t) ==
    \/ WsLock(t)
    \/ WsUnlock(t)
    \/ WsRLock(t)
    \/ WsRUnlock(t)
    \/ WsRegister(t)
    \/ WsUnregister(t)
    \/ WsJoinRoom(t)
    \/ WsLeaveRoom(t)
    \/ WsSendToRead(t)
    \/ WsSendToWrite(t)
    \/ WsRoomLookup(t)
    \/ WsRoomChecked(t)
    \/ \E q \in Orders(RoomSet(ws.th[t].room)) : WsRoomIds(t, q)
    \/ \E q \in Orders(ws.conns) : WsBroadcastIds(t, q)
    \/ \E crash \in BOOLEAN : WsCtxRead(t, crash)

NextWs ==
    \/ \E t \in WsThreads, op \in WsWriteOps \cup WsReadOps, id \in WsIds, room \in WsRooms :
          WsCall(t, op, id, room)
    \/ \E t \in WsThreads : WsSteps(t)

\* The manager alone: no Publisher or Subscriber call is made.
InitWs ==
    /\ ws = NewManager
    /\ InitConsume
    /\ InitBroker
    /\ h = {}
    /\ s = [prefix |-> "", queue |-> "", concurrency |-> 1, js |-> FALSE,
            useJetStream |-> FALSE, metrics |-> FALSE, deriveCtx |-> "default"]
    /\ p = [prefix |-> "", js |-> FALSE, useJetStream |-> FALSE, metrics |-> FALSE]
    /\ calls = [c \in CallSlots |-> IdleCall]
    /\ xids = 0
    /\ ensuredOk = {}

SpecWs == InitWs /\ [][NextWs]_vars

(* ================================================================ claims *)
\* Handler invocations in progress, in either mode.
InFlight ==
    Cardinality({w \in DOMAIN workers : workers[w].pc = "handling"})
    + (IF pc = "inHandler" THEN 1 ELSE 0)

RECURSIVE SumLen(_, _)
SumLen(f, S) ==
    IF S = {} THEN 0
    ELSE LET x == CHOOSE y \in S : TRUE IN Len(f[x]) + SumLen(f, S \ {x})

\* Handler invocations started so far, in either mode.
HandlerStarts ==
    SumLen(invokedBy, Msgs)
    + Cardinality({d \in DOMAIN deliv : deliv[d].st # "fetched"})

Enqueued == Cardinality({m \in Msgs : fate[m] = "enqueued"})
CallbacksDone == produced - (IF cbMsg # 0 THEN 1 ELSE 0)
InChannel(m) == \E i \in DOMAIN msgCh : msgCh[i] = m

\* C1: once Consume has returned, no handler invocation is in progress and none
\* starts afterwards (push: the workers have exited; pull: the loop has ended).
C1_ReturnAfterLastHandler ==
    /\ [](pc = "returned" => InFlight = 0)
    /\ [][pc = "returned" => HandlerStarts' = HandlerStarts]_vars

\* C1 witness: Consume returned nil after a cancellation, two workers, a handled message.
C1_Witness ==
    /\ pc = "returned" /\ result = "nil" /\ parentDone
    /\ s.concurrency = 2
    /\ \E m \in Msgs : Len(invokedBy[m]) = 1

\* C2 as stated: once every callback invocation has completed, each message handed
\* to the callback was enqueued or recorded as dropped.
C2_EnqueuedOrDropped ==
    (cbMsg = 0 /\ ~panicked) => Enqueued + sublog["dropped"] = produced

\* C2 amended: every completed callback enqueued its message, recorded it as dropped,
\* or discarded it with the "stopping enqueue" line, the last only with the context
\* cancelled; the dropped metric, when configured, counts the drops.
C2_EnqueuedDroppedOrStopped ==
    /\ Enqueued + sublog["dropped"] + sublog["stopping enqueue"] = CallbacksDone
    /\ sublog["queued"] = Enqueued
    /\ sublog["stopping enqueue"] > 0 => parentDone
    /\ ~parentDone => Enqueued + sublog["dropped"] = CallbacksDone
    /\ s.metrics => submetrics["dropped"] = sublog["dropped"]

\* C2 witness: the producer outpaced a queue of four: four enqueued, one dropped.
C2_Witness ==
    /\ s.concurrency = 1 /\ cbMsg = 0
    /\ Enqueued >= QueueFactor
    /\ sublog["dropped"] >= 1

\* C3: an enqueued message is either still in the channel or was passed to the handler
\* exactly once; by the time Consume returns each was handled exactly once; a worker
\* ends only when the channel is closed and empty, never because of a handler error.
C3_HandledExactlyOnce ==
    /\ \A m \in Msgs :
        /\ Len(invokedBy[m]) <= 1
        /\ invokedBy[m] # <<>> => fate[m] = "enqueued"
        /\ fate[m] = "enqueued" => (InChannel(m) <=> invokedBy[m] = <<>>)
        /\ (pc = "returned" /\ fate[m] = "enqueued") => Len(invokedBy[m]) = 1
    /\ \A w \in DOMAIN workers :
        workers[w].pc = "exited" => chClosed /\ msgCh = <<>>

\* C3 witness: a worker whose handler failed on one message handled a later one.
C3_Witness ==
    \E w \in DOMAIN workers, m1 \in Msgs, m2 \in Msgs :
        /\ m1 < m2 /\ m1 \in h
        /\ invokedBy[m1] = <<w>> /\ invokedBy[m2] = <<w>>
        /\ workers[w].msg # m1

\* C4: a fetched message gets at most one of Ack and Nak; once settled, a failed one
\* has exactly one Nak and no Ack, a successful one exactly one Ack and no Nak.
C4_AckXorNak ==
    \A d \in DOMAIN deliv :
        /\ deliv[d].st # "settled" => deliv[d].acks = 0 /\ deliv[d].naks = 0
        /\ deliv[d].st = "settled" =>
            /\ deliv[d].res = "err" => deliv[d].naks = 1 /\ deliv[d].acks = 0
            /\ deliv[d].res = "ok" => deliv[d].acks = 1 /\ deliv[d].naks = 0
            /\ deliv[d].res # "none"

\* C4 witness: one settled delivery failed, another succeeded.
C4_Witness ==
    \E d1 \in DOMAIN deliv, d2 \in DOMAIN deliv :
        /\ deliv[d1].st = "settled" /\ deliv[d1].res = "err"
        /\ deliv[d2].st = "settled" /\ deliv[d2].res = "ok"

Range(f) == {f[i] : i \in DOMAIN f}

\* C5: a call made with a context that is already done returns the context's error
\* and performs no broker call (no StreamInfo, AddStream, PublishMsg, Publish, Flush).
C5_DoneContextNoBrokerCall ==
    \A c \in CallSlots :
        calls[c].doneAtCall =>
            /\ calls[c].ops = <<>>
            /\ calls[c].pc \in {"check", "done"}
            /\ calls[c].pc = "done" =>
                 calls[c].res = calls[c].ctx /\ calls[c].res \in {"canceled", "deadline"}

\* C5 witness: a call with a cancelled context has returned while another call,
\* with a live context, has reached the broker.
C5_Witness ==
    \E c1 \in CallSlots, c2 \in CallSlots :
        /\ calls[c1].doneAtCall /\ calls[c1].pc = "done" /\ calls[c1].res = "canceled"
        /\ calls[c2].ops # <<>>

\* C6: with the calls made one after the other, every EnsureStream that runs after
\* one has returned nil for the same subject returns nil, AddStream is never
\* requested for a stream that exists, and no stream is created twice.
C6_EnsureIdempotent ==
    /\ \A c \in CallSlots :
        (calls[c].afterOk /\ calls[c].ens # "none") => calls[c].ens = "nil"
    /\ \A n \in StreamNames : created[n] <= 1 /\ addPresent[n] = 0

\* C6 witness: three EnsureStream runs for one subject, all nil; the first created
\* the stream, the later ones only looked it up.
C6_Witness ==
    \E n \in StreamNames, c1 \in SeqSlots, c2 \in SeqSlots, c3 \in SeqSlots :
        /\ c1 < c2 /\ c2 < c3
        /\ created[n] = 1
        /\ \A c \in {c1, c2, c3} : calls[c].subj = n /\ calls[c].ens = "nil"
        /\ calls[c1].ops = <<"StreamInfo", "AddStream">>
        /\ calls[c2].afterOk /\ calls[c2].ops = <<"StreamInfo">>
        /\ calls[c3].afterOk /\ calls[c3].op = "EnsureStream"

\* C7 as stated: no EnsureStream run ends with the broker's "already exists" answer
\* as its error (a transport fault aside, every concurrent caller gets nil).
C7_ConcurrentEnsureSucceeds ==
    \A c \in CallSlots : calls[c].ens \in {"none", "nil", "fault"}

\* C8: every message sent with PublishMsg carries a non-empty Nats-Msg-Id: the
\* caller's id when it gave one, a generated id otherwise.
C8_DurableCarriesID ==
    /\ \A c \in CallSlots :
        "PublishMsg" \in Range(calls[c].ops) =>
            /\ calls[c].hdr # ""
            /\ calls[c].arg # "" => calls[c].hdr = calls[c].arg
            /\ calls[c].arg = "" =>
                 calls[c].hdr \in {"xid" \o ToString(n) : n \in 1..xids}
    /\ \A i \in DOMAIN stored : stored[i].by # 0 => stored[i].id # ""

\* C8 witness: one durable publish sent a generated id, another the caller's id.
C8_Witness ==
    \E c1 \in CallSlots, c2 \in CallSlots :
        /\ "PublishMsg" \in Range(calls[c1].ops) /\ calls[c1].arg = ""
        /\ "PublishMsg" \in Range(calls[c2].ops) /\ calls[c2].arg # ""

\* Two durable publishes that succeeded with the same non-empty id and subject.
SameIdPair(c1, c2) ==
    /\ c1 # c2
    /\ calls[c1].pc = "done" /\ calls[c1].res = "nil"
    /\ calls[c2].pc = "done" /\ calls[c2].res = "nil"
    /\ calls[c1].arg # "" /\ calls[c1].arg = calls[c2].arg
    /\ calls[c1].subj = calls[c2].subj

StoredWith(n, k) == {i \in DOMAIN stored : stored[i].subj = n /\ stored[i].id = k}
DeliveriesOf(I) == {d \in DOMAIN deliv : deliv[d].m \in I}

RECURSIVE SumField(_, _)
SumField(D, fld) ==
    IF D = {} THEN 0
    ELSE LET d == CHOOSE x \in D : TRUE IN deliv[d][fld] + SumField(D \ {d}, fld)

\* C9: after two durable publishes with the same non-empty id the stream holds one
\* message with that id; the subscriber's handler receives it once, and once more
\* only for each Nak it sent for it; it is acknowledged at most once.
C9_SameIdDeliveredOnce ==
    \A c1 \in CallSlots, c2 \in CallSlots :
        SameIdPair(c1, c2) =>
            LET I == StoredWith(calls[c1].subj, calls[c1].arg)
                D == DeliveriesOf(I)
            IN /\ Cardinality(I) = 1
               /\ Cardinality(D) <= 1 + SumField(D, "naks")
               /\ SumField(D, "acks") <= 1

\* C9 witness: both publishes returned nil and the one stored message was
\* delivered once and acknowledged.
C9_Witness ==
    \E c1 \in CallSlots, c2 \in CallSlots :
        /\ SameIdPair(c1, c2)
        /\ LET D == DeliveriesOf(StoredWith(calls[c1].subj, calls[c1].arg))
           IN /\ Cardinality(D) = 1
              /\ \A d \in D : deliv[d].st = "settled" /\ deliv[d].acks = 1

\* C10: with concurrency 1 at most one handler invocation is in progress.
C10_Serialized == s.concurrency = 1 => InFlight <= 1

\* C10 witness: concurrency 1, a handler in progress while another message waits.
C10_Witness ==
    /\ s.concurrency = 1 /\ InFlight = 1
    /\ Len(msgCh) >= 1

\* Consume has failed in its setup and is on its way out (push mode; in pull mode
\* the failing call and the return are one step).
SetupFailing == pc \in {"unsub", "errClose", "errWait"}

C12_NoWorkerOnSetupFailure ==
    (SetupFailing \/ result = "err") => workers = <<>>

\* C12 amended: in push mode the workers are started before the subscription is
\* made, so a failing setup finds all of them started; Consume closes the channel
\* and returns the error only once every one of them has exited. Pull mode starts none.
C12_WorkersEndedOnSetupFailure ==
    /\ SetupFailing => chMade /\ DOMAIN workers = WorkerIds
    /\ result = "err" => AllWorkersExited
    /\ (result = "err" /\ chMade) => chClosed /\ DOMAIN workers = WorkerIds
    /\ (s.useJetStream /\ s.js) => workers = <<>>

\* C12 witness: Consume returned a setup error; its two workers had been started
\* and have exited.
C12_Witness ==
    /\ pc = "returned" /\ result = "err"
    /\ s.concurrency = 2 /\ DOMAIN workers = {0, 1}
    /\ AllWorkersExited

\* The subscription has been Ready: the "ready" line of either mode was logged.
WasReady == sublog["ready"] > 0

\* C13: once Ready, Consume returns only after the cancellation and only nil,
\* whatever handler errors, fetch errors, failed Ack/Nak calls and drops occurred.
C13_NoReturnOnMessageFailure ==
    WasReady =>
        /\ result \in {"none", "nil"}
        /\ pc = "returned" => result = "nil" /\ parentDone
        /\ ~parentDone => pc # "returned" /\ result = "none"

\* C13 witness: pull mode returned nil after a fetch error, a handler error and an
\* Ack that did not reach the broker.
C13_Witness ==
    /\ pc = "returned" /\ result = "nil" /\ WasReady
    /\ sublog["fetch error"] >= 1 /\ sublog["handler error"] >= 1
    /\ \E d \in DOMAIN deliv :
         /\ deliv[d].st = "settled" /\ deliv[d].acks = 1
         /\ stored[deliv[d].m].st = "outstanding"

C15_NoDeliveryAfterCancel == ~late

\* C16: a callback invocation in progress can always take its step, whatever the
\* queue, the workers and the context are doing; while the channel is open the
\* step completes the invocation (enqueue, stop or drop).
C16_CallbackNeverWaits ==
    (cbMsg # 0 /\ ~panicked) =>
        /\ ENABLED CbStep
        /\ ~chClosed => ENABLED (CbEnqueue \/ CbParentDone \/ CbDrop)

\* C16 witness: five callbacks have completed, the last by dropping its message,
\* while the only worker has not taken a single message from the full queue.
C16_Witness ==
    /\ s.concurrency = 1 /\ Len(msgCh) = Capacity
    /\ cbMsg = 0 /\ produced = Capacity + 1 /\ fate[produced] = "dropped"
    /\ SumLen(invokedBy, Msgs) = 0
    /\ \A w \in DOMAIN workers : workers[w].pc = "recv"

\* The messages cb has dropped.
Dropped == {m \in Msgs : fate[m] = "dropped"}

\* C17: a message is dropped, and recorded as dropped (log line, and metric when
\* configured), only by a callback that finds the open channel holding
\* s.concurrency*4 messages; with room in the open channel and a live context the
\* only step of the callback is the enqueue.
C17_DropOnlyWhenFull ==
    /\ [][(Dropped' # Dropped \/ sublog'["dropped"] # sublog["dropped"]
            \/ submetrics'["dropped"] # submetrics["dropped"]) =>
             /\ Len(msgCh) = Capacity /\ ~chClosed
             /\ Dropped' = Dropped \cup {cbMsg}
             /\ sublog'["dropped"] = sublog["dropped"] + 1
             /\ s.metrics => submetrics'["dropped"] = submetrics["dropped"] + 1]_vars
    /\ []((cbMsg # 0 /\ ~panicked /\ ~chClosed /\ Len(msgCh) < Capacity /\ ~parentDone) =>
             (ENABLED CbEnqueue /\ ~ENABLED CbDrop /\ ~ENABLED CbParentDone))

\* C17 witness: with a recorder configured, four messages were enqueued and the
\* fifth, finding the queue full before any cancellation, was dropped and counted.
C17_Witness ==
    /\ s.concurrency = 1 /\ s.metrics /\ ~parentDone
    /\ Dropped = {QueueFactor + 1}
    /\ submetrics["dropped"] = 1 /\ sublog["dropped"] = 1

\* C18: the channel never holds more than s.concurrency*4 messages.
C18_QueueBounded == chMade => Len(msgCh) <= Capacity

\* C18 witness: one worker inside the handler and the queue at its capacity of four.
C18_Witness ==
    /\ s.concurrency = 1 /\ Len(msgCh) = QueueFactor
    /\ \A w \in DOMAIN workers : workers[w].pc = "handling"

\* if p.useJetStream && p.js != nil: the durable path; otherwise the transient one.
DurablePath == p.useJetStream /\ p.js

\* The steps of a transient publish, in program order, for a call.
TransientOps(call) ==
    <<"Marshal", "Publish", IF call.deadline THEN "FlushTimeout" ELSE "Flush">>

IsPrefix(a, b) == Len(a) <= Len(b) /\ a = SubSeq(b, 1, Len(a))

\* C19: a transient publish serializes, publishes and flushes, in that order and
\* each at most once, the flush being FlushTimeout exactly when the context has a
\* deadline; it returns nil only after all three, and otherwise the error of the
\* step it stopped at.
C19_TransientOrder ==
    ~DurablePath =>
        \A c \in CallSlots :
            calls[c].op = "PublishWithID" =>
                /\ IsPrefix(calls[c].ops, TransientOps(calls[c]))
                /\ calls[c].res = "nil" => calls[c].ops = TransientOps(calls[c])
                /\ calls[c].pc = "done" =>
                     /\ Len(calls[c].ops) = 0 => calls[c].res \in {"canceled", "deadline"}
                     /\ Len(calls[c].ops) = 1 => calls[c].res = "marshal"
                     /\ Len(calls[c].ops) = 2 => calls[c].res = "publish"
                     /\ Len(calls[c].ops) = 3 => calls[c].res \in {"nil", "flush"}

\* C19 witness: a transient publish with a deadline returned nil after
\* FlushTimeout; another, without deadline, returned the error of its Flush.
C19_Witness ==
    /\ ~DurablePath
    /\ \E c1 \in CallSlots, c2 \in CallSlots :
         /\ calls[c1].res = "nil" /\ calls[c1].deadline
         /\ calls[c1].ops = <<"Marshal", "Publish", "FlushTimeout">>
         /\ calls[c2].res = "flush" /\ ~calls[c2].deadline
         /\ calls[c2].ops = <<"Marshal", "Publish", "Flush">>

\* The messages call c has put into a stream.
StoredBy(c) == {i \in DOMAIN stored : stored[i].by = c}

\* C20: a durable publish sends the message only after its EnsureStream returned
\* nil (the lookup, and the creation if any, precede PublishMsg); when EnsureStream
\* fails the call returns that error and has sent and stored nothing.
C20_EnsureBeforePublish ==
    DurablePath =>
        \A c \in CallSlots :
            calls[c].op = "PublishWithID" =>
                /\ "Publish" \notin Range(calls[c].ops)
                /\ "PublishMsg" \in Range(calls[c].ops) =>
                     /\ calls[c].ens = "nil"
                     /\ calls[c].ops \in {<<"StreamInfo", "Marshal", "PublishMsg">>,
                                          <<"StreamInfo", "AddStream", "Marshal", "PublishMsg">>}
                /\ calls[c].ens \notin {"none", "nil"} =>
                     /\ calls[c].pc = "done" /\ calls[c].res = calls[c].ens
                     /\ calls[c].ops \in {<<"StreamInfo">>, <<"StreamInfo", "AddStream">>}
                     /\ StoredBy(c) = {}
                /\ StoredBy(c) # {} => "PublishMsg" \in Range(calls[c].ops)

\* C20 witness: one durable publish created the stream and then sent its message;
\* another was refused the creation and returned that error without sending.
C20_Witness ==
    /\ DurablePath
    /\ \E c1 \in CallSlots, c2 \in CallSlots :
         /\ calls[c1].op = "PublishWithID" /\ calls[c1].res = "nil"
         /\ calls[c1].ops = <<"StreamInfo", "AddStream", "Marshal", "PublishMsg">>
         /\ calls[c2].op = "PublishWithID" /\ calls[c2].pc = "done"
         /\ calls[c2].res = "exists" /\ calls[c2].ops = <<"StreamInfo", "AddStream">>

\* The publish attempts a call has made on the broker.
PublishAttempts(call) ==
    Len(SelectSeq(call.ops, LAMBDA o : o \in {"Publish", "PublishMsg"}))

\* C21: a call makes at most one publish attempt; a step that fails ends the call
\* with that step's error (the failing step is the last one made), and a call that
\* has returned does nothing more.
C21_OneAttemptNoRetry ==
    /\ [](\A c \in CallSlots :
            /\ PublishAttempts(calls[c]) <= 1
            /\ calls[c].res # "none" => calls[c].pc = "done"
            /\ (calls[c].op = "PublishWithID" /\ calls[c].pc = "done"
                  /\ calls[c].res \notin {"nil", "canceled", "deadline", "marshal"}) =>
                 /\ calls[c].ans # <<>>
                 /\ calls[c].ans[Len(calls[c].ans)] # "nil"
                 /\ \A i \in 1..(Len(calls[c].ans) - 1) :
                      calls[c].ans[i] \in {"nil", "notfound"})
    /\ [][\A c \in CallSlots : calls[c].pc = "done" => calls'[c] = calls[c]]_vars

\* C21 witness: the broker refused a transient publish: the call made its single
\* attempt and returned the publish error.
C21_Witness ==
    \E c \in CallSlots :
        /\ calls[c].pc = "done" /\ calls[c].res = "publish"
        /\ calls[c].ops = <<"Marshal", "Publish">> /\ calls[c].ans = <<"err">>

\* What a caller passes to PublishWithID, and what its context is when it is read.
PublishInput(call) == <<call.subj, call.arg, call.marshals, call.deadline, call.ctx>>

\* Two calls that have returned after the same input and the same broker answers.
SameRun(c1, c2) ==
    /\ calls[c1].op = "PublishWithID" /\ calls[c1].pc = "done"
    /\ calls[c2].op = "PublishWithID" /\ calls[c2].pc = "done"
    /\ PublishInput(calls[c1]) = PublishInput(calls[c2])
    /\ calls[c1].ans = calls[c2].ans

\* C22: two calls with the same input and the same broker answers return the
\* same value and make the same broker calls, whatever their recorders (none, one
\* that succeeds, one that fails).
C22_MetricsDoNotAlterResult ==
    \A c1 \in CallSlots, c2 \in CallSlots :
        SameRun(c1, c2) =>
            /\ calls[c1].res = calls[c2].res
            /\ calls[c1].ops = calls[c2].ops

\* C22 witness: the same successful publish on a publisher whose recorder fails
\* and on a publisher without a recorder.
C22_Witness ==
    \E c1 \in CallSlots, c2 \in CallSlots :
        /\ SameRun(c1, c2)
        /\ calls[c1].rec = "fail" /\ calls[c2].rec = "none"
        /\ calls[c1].res = "nil" /\ calls[c1].metric # <<>>

\* C23 as stated: a Publish call in progress can always take its next step,
\* whatever its recorder does.
C23_SinkCannotStall ==
    \A c \in PubSlots :
        calls[c].pc \notin {"idle", "done"} => ENABLED CallSteps(c)

\* The js field of the receiver of an EnsureStream call.
HasJetStream(call) == IF call.recv = "p" THEN p.js ELSE s.js

\* C24: an EnsureStream on a receiver without JetStream context has returned nil
\* at once, without a broker call, and the broker's streams are as they were.
C24_NoJetStreamNoOp ==
    /\ \A c \in CallSlots :
        (calls[c].op = "EnsureStream" /\ ~HasJetStream(calls[c])) =>
            /\ calls[c].pc = "done" /\ calls[c].res = "nil"
            /\ calls[c].ops = <<>> /\ calls[c].ans = <<>>
    /\ (~p.js /\ ~s.js) =>
         /\ streams = {}
         /\ \A n \in StreamNames : created[n] = 0 /\ addPresent[n] = 0

\* C24 witness: three EnsureStream calls without JetStream context, on the
\* Publisher and on the Subscriber, for both subjects, all returned nil.
C24_Witness ==
    /\ ~p.js /\ ~s.js
    /\ \A c \in SeqSlots : calls[c].op = "EnsureStream" /\ calls[c].res = "nil"
    /\ {calls[c].recv : c \in SeqSlots} = {"p", "s"}
    /\ {calls[c].subj : c \in SeqSlots} = StreamNames

Phase ==
    CASE pc = "created" -> "Created"
      [] pc \in {"coreMake", "subscribe", "flush", "unsub", "errClose", "errWait",
                 "jsEnsure", "jsInfo", "jsAdd", "pullSub"} -> "Subscribing"
      [] pc \in {"ready", "loop", "fetch", "handle", "inHandler", "settle"} -> "Ready"
      [] pc \in {"drain", "close", "wait"} -> "Draining"
      [] pc = "returned" -> "Stopped"

\* C26: the lifecycle of a Consume call moves only forward: Created to Subscribing,
\* Subscribing to Ready once the setup has succeeded or to Stopped with the setup
\* error, Ready to Draining once the context is cancelled, Draining to Stopped with
\* nil (the pull loop, which has nothing to drain, observes the cancellation and
\* returns nil in one statement); nil is never returned before the cancellation
\* and Stopped is never left.
C26_LifecycleForward ==
    /\ [][Phase' # Phase =>
            \/ Phase = "Created" /\ Phase' = "Subscribing"
            \/ /\ Phase = "Subscribing" /\ Phase' = "Ready"
               /\ sublog["ready"] = 0 /\ sublog'["ready"] = 1
               /\ result' = "none"
               /\ (~s.useJetStream => subState' = "active")
            \/ Phase = "Subscribing" /\ Phase' = "Stopped" /\ result' = "err"
            \/ Phase = "Ready" /\ Phase' = "Draining" /\ parentDone
            \/ Phase = "Draining" /\ Phase' = "Stopped" /\ result' = "nil"
            \/ /\ Phase = "Ready" /\ Phase' = "Stopped"
               /\ pc = "loop" /\ parentDone /\ result' = "nil"]_vars
    /\ [][Phase = "Stopped" => Phase' = "Stopped" /\ result' = result]_vars
    /\ [](result = "nil" => parentDone)
    /\ []((result = "none") <=> (Phase # "Stopped"))

\* C26 witness: a push-mode Consume that went through every state: it logged
\* ready, draining and stopped once each and returned nil.
C26_Witness ==
    /\ Phase = "Stopped" /\ result = "nil"
    /\ sublog["ready"] = 1 /\ sublog["draining"] = 1 /\ sublog["stopped"] = 1
    /\ parentDone
    /\ produced > 0

\* C27: the pull loop issues a fetch only from its select, and only when the select
\* found the context not cancelled; with the context cancelled the select returns;
\* a fetch that ends with an error or without messages leads back to the select.
C27_CheckBeforeEveryFetch ==
    /\ [][(pc' = "fetch" /\ pc # "fetch") => (pc = "loop" /\ ~parentDone)]_vars
    /\ [][(pc = "loop" /\ parentDone /\ pc' # pc) => (pc' = "returned" /\ result' = "nil")]_vars
    /\ [][(pc = "fetch" /\ pc' # pc /\ fetchErr' \in {"timeout", "other"}) => pc' = "loop"]_vars
    /\ [][(pc = "fetch" /\ pc' # pc) => fetchErr' # "none"]_vars

\* C27 witness: a fetch failed, the context was cancelled, and the loop returned
\* nil at its next select without another fetch.
C27_Witness ==
    /\ pc = "returned" /\ result = "nil"
    /\ s.useJetStream
    /\ fetchErr = "other"
    /\ sublog["fetch error"] = 1
    /\ deliv = <<>>

\* C28: a fetch that ends with nats.ErrTimeout and no message writes no log line
\* and no metric, calls no handler, sends no Ack or Nak, returns nothing from
\* Consume, and leads to the next iteration of the loop.
C28_TimeoutIsNormalIteration ==
    [][(pc = "fetch" /\ pc' # pc /\ fetchErr' = "timeout") =>
          /\ pc' = "loop"
          /\ batch' = <<>>
          /\ sublog' = sublog
          /\ submetrics' = submetrics
          /\ deliv' = deliv
          /\ stored' = stored
          /\ result' = result /\ result = "none"]_vars

\* C28 witness: the loop is back at its select after a fetch that timed out, with
\* nothing logged, counted, handled or settled.
C28_Witness ==
    /\ pc = "loop"
    /\ fetchErr = "timeout"
    /\ sublog["fetch error"] = 0 /\ sublog["handler error"] = 0
    /\ deliv = <<>>
    /\ result = "none"
    /\ Len(Pending) > 0

\* C29: a subscription the broker holds has at least one worker and a channel
\* of capacity at least QueueFactor, and making the channel never panics.
C29_ConcurrencyAtLeastOne ==
    /\ subState = "active" =>
         /\ s.concurrency >= 1
         /\ Cardinality(DOMAIN workers) >= 1
         /\ Capacity >= QueueFactor
    /\ pc = "coreMake" => ~panicked

\* C30: in pull mode the deliveries are handled in the order the fetches returned
\* them: when the handler of a delivery has started, every delivery fetched before
\* it has had its handler return and exactly one Ack or Nak sent; the range loop
\* is at the one delivery that is not yet settled.
C30_PullInFetchOrder ==
    /\ \A d1, d2 \in DOMAIN deliv :
          (d1 < d2 /\ deliv[d2].st # "fetched") =>
              /\ deliv[d1].st = "settled"
              /\ deliv[d1].res # "none"
              /\ deliv[d1].acks + deliv[d1].naks = 1
    /\ \A d \in DOMAIN deliv :
          deliv[d].st \in {"handling", "returned"} =>
              (bi \in DOMAIN batch /\ batch[bi] = d)
    /\ \A i, j \in DOMAIN batch : i < j => batch[i] < batch[j]

\* C30 witness: with concurrency 2, a fetch returned two messages; the first is
\* settled and the handler of the second is running.
C30_Witness ==
    /\ s.concurrency = 2
    /\ Len(batch) >= 2 /\ bi = 2
    /\ deliv[batch[1]].st = "settled"
    /\ deliv[batch[2]].st = "handling"
    /\ pc = "inHandler"

\* C31: a worker that is in a handler call passed the handler the context that
\* s.deriveCtx (the function of SubWithContextFn when given, the default otherwise)
\* made from the Consume context and the message it is handling.
C31_HandlerGetsDerivedContext ==
    \A w \in DOMAIN workers :
        /\ workers[w].pc = "handling" =>
              /\ workers[w].msg \in Msgs
              /\ workers[w].ctx = [fn |-> s.deriveCtx, parent |-> "parent",
                                   msg |-> workers[w].msg]
        /\ workers[w].pc # "handling" => workers[w].ctx = NoCtx

\* C31 witness: with a function set through SubWithContextFn, two workers are in
\* handler calls for two different messages, each with its own derived context.
C31_Witness ==
    /\ s.deriveCtx = "custom"
    /\ DOMAIN workers = {0, 1}
    /\ workers[0].pc = "handling" /\ workers[1].pc = "handling"
    /\ workers[0].ctx.fn = "custom" /\ workers[1].ctx.fn = "custom"
    /\ workers[0].ctx.msg # workers[1].ctx.msg

\* The nats_publish_total counts a call has recorded, by their status tag.
Outcomes(call) == SelectSeq(call.metric, LAMBDA st : st # "observe")

\* C32: with a recorder, a PublishWithID call that got past the cancellation check
\* and has returned has recorded exactly one outcome count: success when it
\* returned nil, the reason of the failure otherwise.
C32_OneOutcomePerCall ==
    \A c \in PubSlots :
        (/\ calls[c].op = "PublishWithID" /\ calls[c].pc = "done"
         /\ calls[c].rec = "ok"
         /\ calls[c].res \notin {"canceled", "deadline"}) =>
            /\ Len(Outcomes(calls[c])) = 1
            /\ (Outcomes(calls[c])[1] = "success") <=> (calls[c].res = "nil")
            /\ calls[c].res = "marshal" => Outcomes(calls[c])[1] = "marshal_error"
            /\ calls[c].res = "publish" => Outcomes(calls[c])[1] = "publish_error"
            /\ calls[c].res = "flush" => Outcomes(calls[c])[1] = "flush_error"

\* The messages a push subscription holds: queued in msgCh or in a handler call.
Held == Len(msgCh) + Cardinality({w \in DOMAIN workers : workers[w].pc = "handling"})

\* C33: in push mode with concurrency N there are N workers, so at most N handler
\* calls are in progress, and the subscription holds at most N * 4 queued plus N
\* in-flight messages.
C33_HeldBounded ==
    chMade =>
        /\ Cardinality(DOMAIN workers) = s.concurrency
        /\ Cardinality({w \in DOMAIN workers : workers[w].pc = "handling"}) <= s.concurrency
        /\ Held <= s.concurrency * QueueFactor + s.concurrency
        /\ \A w1, w2 \in DOMAIN workers :
              (w1 # w2 /\ workers[w1].pc = "handling" /\ workers[w2].pc = "handling")
                  => workers[w1].msg # workers[w2].msg

\* C33 witness: with concurrency 2 both workers are in a handler call while
\* further messages wait in the channel.
C33_Witness ==
    /\ s.concurrency = 2
    /\ Cardinality({w \in DOMAIN workers : workers[w].pc = "handling"}) = 2
    /\ Len(msgCh) = MaxMsgs - 2
    /\ Held = MaxMsgs

\* C34: the callback never executes its send case on a closed msgCh.
C34_NoSendOnClosedQueue == \A m \in Msgs : fate[m] # "panic"

\* C35: a message leaves the channel only into a handler call, closing the channel
\* included; when Consume has returned the channel is empty, no handler call is in
\* progress, and every message that was enqueued has been passed to the handler.
C35_NoAcceptedMessageDiscarded ==
    /\ [][\A m \in Msgs : (InChannel(m) /\ ~InChannel(m)') =>
              \E w \in DOMAIN workers :
                  /\ workers'[w].pc = "handling" /\ workers'[w].msg = m
                  /\ invokedBy'[m] = <<w>>]_vars
    /\ [](pc = "returned" =>
             /\ msgCh = <<>>
             /\ \A w \in DOMAIN workers : workers[w].pc = "exited"
             /\ \A m \in Msgs : fate[m] = "enqueued" => invokedBy[m] # <<>>)

\* C35 witness: the context is cancelled and the channel closed while messages
\* still wait in it; Consume is in wg.Wait().
C35_Witness ==
    /\ pc = "wait" /\ parentDone /\ chClosed
    /\ sublog["draining"] = 1
    /\ Len(msgCh) >= 2
    /\ \A i \in DOMAIN msgCh : invokedBy[msgCh[i]] = <<>>

\* C36: when Consume has returned an error, no handler call has been made.
C36_NoHandlerOnSetupError ==
    result = "err" =>
        /\ \A m \in Msgs : invokedBy[m] = <<>>
        /\ \A d \in DOMAIN deliv : deliv[d].st = "fetched"

\* C37: a batch in progress is never abandoned: Consume does not return from inside
\* the range loop, and when it has returned every delivery a fetch returned has had
\* exactly one Ack or one Nak.
C37_FetchedAllSettled ==
    /\ [][(pc \in {"handle", "inHandler", "settle"}) => (pc' \in {"handle", "inHandler", "settle", "loop"})]_vars
    /\ [](pc \in {"loop", "returned"} =>
             \A d \in DOMAIN deliv :
                 /\ deliv[d].st = "settled"
                 /\ deliv[d].acks + deliv[d].naks = 1)

\* C37 witness: the context was cancelled while a batch of two was being processed;
\* the first message is settled and the loop goes on to the second.
C37_Witness ==
    /\ parentDone
    /\ pc = "handle" /\ Len(batch) = 2 /\ bi = 2
    /\ deliv[batch[1]].st = "settled"
    /\ deliv[batch[1]].acks + deliv[batch[1]].naks = 1
    /\ deliv[batch[2]].st = "fetched"

\* The broker operations a call has performed, in order.
BrokerOps(call) == SelectSeq(call.ops, LAMBDA o : o # "Marshal")

\* C38: a call that returned the serialization error has performed no broker
\* operation, and no stream was looked up or created on its behalf.
C38_MarshalFailureIsLocal ==
    \A c \in PubSlots :
        (calls[c].op = "PublishWithID" /\ calls[c].res = "marshal") =>
            /\ BrokerOps(calls[c]) = <<>>
            /\ calls[c].ans = <<>>

\* C39: no goroutine has read or written m.conns, m.rooms or m.ctxs without
\* holding m.mu, and no access has raced with a write.
C39_MapsAccessedUnderMutex ==
    /\ ws.unprot = {}
    /\ ~ws.race
    /\ ~ws.crashed

====
